---- MODULE Spec2Model ----
(***************************************************************************)
(* A model of the xi-win front end: the line cache (src/linecache.rs) and  *)
(* the RPC correlator (src/rpc.rs).                                        *)
(*                                                                         *)
(* Rust's Option<T> is a sequence of length 0 (None) or 1 (Some(x)).       *)
(* A serde_json Value is represented by what its accessors return: a       *)
(* field read with as_u64/as_i64/as_str/as_array is the Option that the    *)
(* accessor yields (None for a missing or ill-typed field).                *)
(* A str is the sequence of its UTF-8 bytes.                               *)
(***************************************************************************)
EXTENDS Integers, Sequences, FiniteSets, TLC

VARIABLES
    lines,      \* LineCache.lines of the view's cache: Seq(Option<Line>)
    old_iter,   \* the rows old_iter has still to yield (old_cache.lines.into_iter())
    cur_op,     \* the element of update["ops"] the loop has just processed
    lc_pc,      \* where apply_update is: "idle", "loop", "panic"
    sum_emit,   \* history: rows the ops processed so far ask to emit (ins + copy + invalidate)
    room,       \* history: rows of the old snapshot minus the rows copy and skip ops asked for
    old_snap,   \* history: old_cache.lines as mem::take left it
    origin,     \* history: for each row of lines, the place in old_snap that old_iter
                \* yielded it from (1-based), 0 for a row that is no row of the snapshot
    lc_hist     \* old_snap and origin are recorded (they stay empty otherwise)

lc_vars == <<lines, old_iter, cur_op, lc_pc, sum_emit, room, old_snap, origin, lc_hist>>

VARIABLES
    cs_id,      \* CoreState.id
    pending,    \* CoreState.pending: a function from the ids of a finite set to callbacks
    lock,       \* Option<thread>: the holder of the Mutex<CoreState>
    poisoned,   \* the mutex was held by a thread that panicked
    sent,       \* the frames written to xi_peer (send_json) that the peer has yet to read
    c_pc,       \* per caller: where it is in send_request / send_notification
    c_id,       \* per caller: the local `id` of send_request
    c_cb,       \* per caller: the callback passed to send_request
    rx_chan,    \* the messages in the inbound channel rx
    rx_open,    \* the sending half of rx has not been dropped
    rx_pc,      \* where the receive thread is
    rx_msg,     \* the message the receive thread is handling
    rx_cb,      \* the callback the receive thread took out of pending
    owed,       \* the ids of the requests the peer has read and not yet answered
    alloc,      \* history: the ids send_request read from the counter, in order
    fired,      \* history: the ids whose completion callback.call has been entered
    written     \* history: the ids of the request frames given to send_json, in order

rpc_vars == <<cs_id, pending, lock, poisoned, sent, c_pc, c_id, c_cb, rx_chan, rx_open,
              rx_pc, rx_msg, rx_cb, owed, alloc, fired, written>>

VARIABLES
    app,            \* AppDispatcher.app is Some(App) (main.rs:192)
    focused,        \* AppState.focused: Option<ViewId>
    views,          \* the keys of AppState.views
    app_poisoned,   \* a thread panicked holding the mutex of AppDispatcher.app
    state_poisoned, \* a thread panicked holding the mutex of App.state
    nv_pending,     \* the ids of the new_view requests whose completion is registered
    nv_id,          \* the id the next request gets
    in_chan,        \* the inbound channel handed to Core::new in main
    in_open,        \* its sending half has not been dropped
    rt_pc,          \* where the receive thread is: "recv", "got", "exit", "panic"
    rt_msg,         \* the message it is handling
    ui_pc           \* where the main thread is: "new", "started", "run", "panic"

app_vars == <<app, focused, views, app_poisoned, state_poisoned, nv_pending, nv_id,
              in_chan, in_open, rt_pc, rt_msg, ui_pc>>

VARIABLES
    cd_text,    \* the text of a line: a str
    cd_b,       \* Option: the byte offset given to the codec
    cd_w,       \* Option: the utf-16 offset (computed from cd_b, or given by a hit test)
    cd_back,    \* Option: the byte offset computed from cd_w
    cd_pc,      \* "start", "wire", "back", "hit_back", "styled", "panic"
    cd_arr,     \* the flat `styles` array given to Line::from_json
    cd_styles   \* Option: the style spans of the Line it returned

cd_vars == <<cd_text, cd_b, cd_w, cd_back, cd_pc, cd_arr, cd_styles>>

VARIABLES
    fe_app,      \* Option: the thread holding the mutex of AppDispatcher.app (main.rs:192)
    fe_state,    \* Option: the thread holding the mutex of App.state (main.rs:108)
    fe_cs,       \* Option: the thread holding the mutex of Core.state (rpc.rs:29)
    fe_poisoned, \* the mutexes a thread panicked under: "app", "state", "cs"
    fe_focused,  \* AppState.focused is Some
    fe_pending,  \* the ids of the registered new_view completions
    fe_next,     \* State.id: the id the next request gets
    fe_owed,     \* the requests the core has read and not answered
    fe_chan,     \* the inbound channel
    fe_ui,       \* the main (UI) thread: "new", "req", "idle", "has_app", "save_named",
                 \* "has_state", "in_core", "panic"
    fe_cmd,      \* what it is doing: "none", "start", "open", "save"
    fe_rt,       \* the receive thread: "recv", "got", "handler", "locked", "callback", "panic"
    fe_msg       \* the message the receive thread is handling

fe_vars == <<fe_app, fe_state, fe_cs, fe_poisoned, fe_focused, fe_pending, fe_next,
             fe_owed, fe_chan, fe_ui, fe_cmd, fe_rt, fe_msg>>

VARIABLES
    ev_view_id,  \* EditView.view_id: Option<String>
    ev_core,     \* EditView.core can be upgraded: a Core command has been received
    ev_pending,  \* EditView.pending: the queued methods
    ev_out,      \* the `edit` notifications handed to Core::send_notification, in order
    ev_n,        \* the commands the user has issued so far: methods 1..ev_n
    ev_pokes     \* the ViewId commands received so far

ev_vars == <<ev_view_id, ev_core, ev_pending, ev_out, ev_n, ev_pokes>>

vars == <<lc_vars, rpc_vars, app_vars, cd_vars, fe_vars, ev_vars>>

----------------------------------------------------------------------------
(* Bounds of the model *)

\* rows a cache may hold
MaxHeight == 3
\* largest n of a copy / skip / invalidate op
MaxN == 3
\* threads calling send_request / send_notification
NumCallers == 2
\* send_request calls in one run
MaxRequests == 2
\* frames in the pipe to the peer
MaxPipe == 1
\* messages in the inbound channel
MaxQueue == 1
\* messages in the inbound channel where one caller alone uses the Core
MaxInbox == 2
\* new_view requests of one run of the application
MaxViews == 2
\* code points of a text given to the offset codec
MaxChars == 3
\* triples of a `styles` array, and code points of the text they style
MaxSpans == 2
\* edit commands the user issues in one EditView
MaxCmds == 3

----------------------------------------------------------------------------
(* Option and helpers *)

None == <<>>
Some(x) == <<x>>
IsSome(o) == Len(o) = 1
Unwrap(o) == o[1]

Min(a, b) == IF a <= b THEN a ELSE b

\* s[from+1 .. to] : the Rust slice s[from..to]
Slice(s, from, to) == SubSeq(s, from + 1, to)

----------------------------------------------------------------------------
(* count_utf16 and str slicing, src/linecache.rs *)

\* `b as i8 >= -0x40`: b is not a UTF-8 continuation byte
NotCont(b) == b < 128 \/ b >= 192

count_utf16_Bytes(s) == Len(s)
RECURSIVE count_utf16(_)
count_utf16(s) ==
    IF s = <<>> THEN 0
    ELSE (IF NotCont(s[1]) THEN 1 ELSE 0) + (IF s[1] >= 240 THEN 1 ELSE 0)
         + count_utf16(Tail(s))

\* str::is_char_boundary
is_char_boundary(text, i) ==
    \/ i = 0
    \/ i = Len(text)
    \/ (i > 0 /\ i < Len(text) /\ NotCont(text[i + 1]))

\* &text[a..b] panics unless a <= b <= len and both are char boundaries
SliceOk(text, a, b) ==
    /\ 0 <= a /\ a <= b /\ b <= Len(text)
    /\ is_char_boundary(text, a) /\ is_char_boundary(text, b)

----------------------------------------------------------------------------
(* Line::from_json, src/linecache.rs:24-57.  The result is                 *)
(* [ok |-> TRUE, line |-> Line] or [ok |-> FALSE] (an unwrap / index /     *)
(* slice panic).                                                           *)

Panicked == [ok |-> FALSE]
Returned(x) == [ok |-> TRUE, line |-> x]

\* lines 27-33: the carets, each a byte offset turned into utf-16 units
CursorOk(text, arr) ==
    \A i \in 1..Len(arr) : IsSome(arr[i]) /\ SliceOk(text, 0, Unwrap(arr[i]))
CursorOf(text, arr) ==
    [i \in 1..Len(arr) |-> count_utf16(Slice(text, 0, Unwrap(arr[i])))]

NextIx_Keep(ix, end) == ix
\* line 50: ix = end, the byte offset the next triple's start_delta counts from
NextIx(ix, end) == end

\* lines 36-50: the style triples; ix is the byte end of the previous span
RECURSIVE StylesFrom(_, _, _)
StylesFrom(text, arr, ix) ==
    IF arr = <<>> THEN Returned(<<>>)
    ELSE IF Len(arr) < 3 THEN Panicked                       \* triple[1] / triple[2] out of range
    ELSE IF ~IsSome(arr[1]) \/ ~IsSome(arr[2]) THEN Panicked \* as_i64().unwrap()
    ELSE IF ~IsSome(arr[3]) \/ Unwrap(arr[3]) < 0 THEN Panicked  \* as_u64().unwrap()
    ELSE
      LET start == ix + Unwrap(arr[1])
          end   == start + Unwrap(arr[2])
      IN  IF ~SliceOk(text, 0, start) \/ ~SliceOk(text, start, end) THEN Panicked
          ELSE LET start_utf16 == count_utf16(Slice(text, 0, start))
                   end_utf16   == start_utf16 + count_utf16(Slice(text, start, end))
                   span == [style_id |-> Unwrap(arr[3]),
                            range |-> <<start_utf16, end_utf16>>]
                   rest == StylesFrom(text, SubSeq(arr, 4, Len(arr)), NextIx(ix, end))
               IN  IF rest.ok THEN Returned(<<span>> \o rest.line) ELSE Panicked

from_json(v) ==
    IF ~IsSome(v.text) THEN Panicked
    ELSE
      LET text == Unwrap(v.text)
          cursorOk == ~IsSome(v.cursor) \/ CursorOk(text, Unwrap(v.cursor))
          cursor == IF IsSome(v.cursor) THEN CursorOf(text, Unwrap(v.cursor)) ELSE <<>>
          styles == IF IsSome(v.styles) THEN StylesFrom(text, Unwrap(v.styles), 0)
                    ELSE Returned(<<>>)
      IN  IF ~cursorOk \/ ~styles.ok THEN Panicked
          ELSE Returned([text |-> text, cursor |-> cursor, styles |-> styles.line])

----------------------------------------------------------------------------
(* Inputs of apply_update *)

\* line payloads {text, cursor?, styles?}
MsgA == [text |-> Some(<<104, 105, 10>>), cursor |-> None, styles |-> None]
MsgB == [text |-> Some(<<195, 169, 98>>), cursor |-> Some(<<Some(2)>>),
         styles |-> Some(<<Some(0), Some(2), Some(1)>>)]
MsgNoText == [text |-> None, cursor |-> None, styles |-> None]

\* the op["lines"] arrays tried: empty, one line, two lines, a bad line first or last
InsPayloads == {<<>>, <<MsgA>>, <<MsgB>>, <<MsgA, MsgB>>, <<MsgNoText>>, <<MsgA, MsgNoText>>}

\* an element of update["ops"]: op is op["op"], n is op["n"].as_u64(),
\* lines is op["lines"].as_array()
OpMsg(op, n, ls) == [op |-> op, n |-> n, lines |-> ls]
CountOps ==
    {OpMsg(k, n, None) : k \in {"copy", "skip", "invalidate"},
                         n \in {None} \cup {Some(i) : i \in 0..MaxN}}
InsOps ==
    {OpMsg("ins", None, ls) : ls \in {None} \cup {Some(s) : s \in InsPayloads}}
OtherOps == {OpMsg("noop", None, None)}
OpMsgs == CountOps \cup InsOps \cup OtherOps

NoOp == OpMsg("", None, None)

----------------------------------------------------------------------------
(* LineCache, src/linecache.rs:72-118 *)

\* height(), line 111
height == Len(lines)

get_line_Clamped(i) ==
    IF lines = <<>> THEN None ELSE lines[Min(i, Len(lines) - 1) + 1]
\* get_line(i), line 115: None when out of range or when the row is None
get_line(i) == IF i < Len(lines) THEN lines[i + 1] ELSE None

\* lines 92-95: push Some(Line::from_json(line)) for each payload, stopping
\* at the first payload on which from_json panics
InsRows_First(msgs) ==
    IF msgs = <<>> THEN [ok |-> TRUE, rows |-> <<>>]
    ELSE LET r == from_json(msgs[1])
         IN  IF ~r.ok THEN [ok |-> FALSE, rows |-> <<>>]
             ELSE [ok |-> TRUE, rows |-> <<Some(r.line)>>]
RECURSIVE InsRows(_)
InsRows(msgs) ==
    IF msgs = <<>> THEN [ok |-> TRUE, rows |-> <<>>]
    ELSE LET r == from_json(msgs[1])
         IN  IF ~r.ok THEN [ok |-> FALSE, rows |-> <<>>]
             ELSE LET rest == InsRows(Tail(msgs))
                  IN  [ok |-> rest.ok, rows |-> <<Some(r.line)>> \o rest.rows]

\* the first n elements of s, and s without them
Take(s, n) == SubSeq(s, 1, Min(n, Len(s)))
Drop(s, n) == SubSeq(s, Min(n, Len(s)) + 1, Len(s))

\* lines 98-100: old_iter.next().unwrap_or_default(), n times: the rows
\* pushed, what is left of the iterator, and whether the loop gets through
\* (unwrap_or_default never panics)
CopyRows_NoPad(n) == Take(old_iter, n)
CopyRows(n) == [k \in 1..n |-> IF k <= Len(old_iter) THEN old_iter[k] ELSE None]
CopyRest_NoAdvance(n) == old_iter
CopyRest(n) == Drop(old_iter, n)
CopyOk_Unwrap(n) == n <= Len(old_iter)
CopyOk(n) == TRUE

SkipRest_Rewind(n) == Drop(old_snap, n + 1)
\* line 103: old_iter.nth(n) takes n + 1 rows from the iterator
SkipRest(n) == Drop(old_iter, n + 1)

\* line 106: n None rows
InvalidateRows_FromOld(n) == [k \in 1..n |-> IF k <= Len(old_iter) THEN old_iter[k] ELSE None]
InvalidateRows(n) == [k \in 1..n |-> None]

\* what an op asks for (history)
Emits(op) ==
    IF op.op = "ins" /\ IsSome(op.lines) THEN Len(Unwrap(op.lines))
    ELSE IF op.op \in {"copy", "invalidate"} /\ IsSome(op.n) THEN Unwrap(op.n)
    ELSE 0
Takes(op) ==
    IF op.op \in {"copy", "skip"} /\ IsSome(op.n) THEN Unwrap(op.n) ELSE 0

\* history: the k-th old_iter.next() of a copy yields the row after the
\* Len(old_snap) - Len(old_iter) rows the iterator has given out (None past
\* the end); the rows of the other ops are no rows of the snapshot
OriginStep(op) ==
    /\ origin' =
          IF lc_hist
          THEN origin \o
                 [k \in 1..(Len(lines') - Len(lines)) |->
                     IF op.op = "copy" /\ k <= Len(old_iter)
                     THEN Len(old_snap) - Len(old_iter) + k ELSE 0]
          ELSE origin
    /\ UNCHANGED <<old_snap, lc_hist>>

\* lines 87-89: mem::take(self), then update["ops"].as_array().unwrap()
ApplyBegin(has_ops) ==
    /\ UNCHANGED <<rpc_vars, app_vars, cd_vars, fe_vars, ev_vars>>
    /\ lc_pc = "idle"
    /\ old_iter' = lines
    /\ lines' = <<>>
    /\ cur_op' = NoOp
    /\ sum_emit' = 0
    /\ room' = Len(lines)
    /\ old_snap' = IF lc_hist THEN lines ELSE <<>>
    /\ origin' = <<>>
    /\ UNCHANGED lc_hist
    /\ lc_pc' = IF has_ops THEN "loop" ELSE "panic"

ApplyOp_Strict(op) ==
    /\ UNCHANGED <<rpc_vars, app_vars, cd_vars, fe_vars, ev_vars>>
    /\ lc_pc = "loop"
    /\ sum_emit + Emits(op) <= MaxHeight
    /\ room - Takes(op) >= 0 - MaxN
    /\ cur_op' = op
    /\ sum_emit' = sum_emit + Emits(op)
    /\ room' = room - Takes(op)
    /\ IF op.op = "ins" THEN
          IF ~IsSome(op.lines) THEN
              /\ lc_pc' = "panic"
              /\ UNCHANGED <<lines, old_iter>>
          ELSE
              LET r == InsRows(Unwrap(op.lines))
              IN  /\ lines' = lines \o r.rows
                  /\ lc_pc' = IF r.ok THEN "loop" ELSE "panic"
                  /\ old_iter' = old_iter
       ELSE IF op.op = "copy" THEN
          IF ~IsSome(op.n) THEN
              /\ lc_pc' = "panic"
              /\ UNCHANGED <<lines, old_iter>>
          ELSE
              /\ lines' = lines \o CopyRows(Unwrap(op.n))
              /\ old_iter' = CopyRest(Unwrap(op.n))
              /\ lc_pc' = IF CopyOk(Unwrap(op.n)) THEN "loop" ELSE "panic"
       ELSE IF op.op = "skip" THEN
          IF ~IsSome(op.n) THEN
              /\ lc_pc' = "panic"
              /\ UNCHANGED <<lines, old_iter>>
          ELSE
              /\ old_iter' = SkipRest(Unwrap(op.n))
              /\ lines' = lines
              /\ lc_pc' = "loop"
       ELSE IF op.op = "invalidate" THEN
          IF ~IsSome(op.n) THEN
              /\ lc_pc' = "panic"
              /\ UNCHANGED <<lines, old_iter>>
          ELSE
              /\ lines' = lines \o InvalidateRows(Unwrap(op.n))
              /\ old_iter' = old_iter
              /\ lc_pc' = "loop"
       ELSE
          /\ lc_pc' = "panic"
          /\ UNCHANGED <<lines, old_iter>>
    /\ OriginStep(op)

ApplyOp_InsAdvances(op) ==
    /\ UNCHANGED <<rpc_vars, app_vars, cd_vars, fe_vars, ev_vars>>
    /\ lc_pc = "loop"
    /\ sum_emit + Emits(op) <= MaxHeight
    /\ room - Takes(op) >= 0 - MaxN
    /\ cur_op' = op
    /\ sum_emit' = sum_emit + Emits(op)
    /\ room' = room - Takes(op)
    /\ IF op.op = "ins" THEN
          IF ~IsSome(op.lines) THEN
              /\ lc_pc' = "panic"
              /\ UNCHANGED <<lines, old_iter>>
          ELSE
              LET r == InsRows(Unwrap(op.lines))
              IN  /\ lines' = lines \o r.rows
                  /\ lc_pc' = IF r.ok THEN "loop" ELSE "panic"
                  /\ old_iter' = Drop(old_iter, Len(r.rows))
       ELSE IF op.op = "copy" THEN
          IF ~IsSome(op.n) THEN
              /\ lc_pc' = "panic"
              /\ UNCHANGED <<lines, old_iter>>
          ELSE
              /\ lines' = lines \o CopyRows(Unwrap(op.n))
              /\ old_iter' = CopyRest(Unwrap(op.n))
              /\ lc_pc' = IF CopyOk(Unwrap(op.n)) THEN "loop" ELSE "panic"
       ELSE IF op.op = "skip" THEN
          IF ~IsSome(op.n) THEN
              /\ lc_pc' = "panic"
              /\ UNCHANGED <<lines, old_iter>>
          ELSE
              /\ old_iter' = SkipRest(Unwrap(op.n))
              /\ lines' = lines
              /\ lc_pc' = "loop"
       ELSE IF op.op = "invalidate" THEN
          IF ~IsSome(op.n) THEN
              /\ lc_pc' = "panic"
              /\ UNCHANGED <<lines, old_iter>>
          ELSE
              /\ lines' = lines \o InvalidateRows(Unwrap(op.n))
              /\ old_iter' = old_iter
              /\ lc_pc' = "loop"
       ELSE
          /\ lc_pc' = "loop"
          /\ UNCHANGED <<lines, old_iter>>
    /\ OriginStep(op)

\* lines 90-107: one iteration of the loop over the ops
ApplyOp(op) ==
    /\ UNCHANGED <<rpc_vars, app_vars, cd_vars, fe_vars, ev_vars>>
    /\ lc_pc = "loop"
    /\ sum_emit + Emits(op) <= MaxHeight
    /\ room - Takes(op) >= 0 - MaxN
    /\ cur_op' = op
    /\ sum_emit' = sum_emit + Emits(op)
    /\ room' = room - Takes(op)
    /\ IF op.op = "ins" THEN
          IF ~IsSome(op.lines) THEN
              /\ lc_pc' = "panic"
              /\ UNCHANGED <<lines, old_iter>>
          ELSE
              LET r == InsRows(Unwrap(op.lines))
              IN  /\ lines' = lines \o r.rows
                  /\ lc_pc' = IF r.ok THEN "loop" ELSE "panic"
                  /\ old_iter' = old_iter
       ELSE IF op.op = "copy" THEN
          IF ~IsSome(op.n) THEN
              /\ lc_pc' = "panic"
              /\ UNCHANGED <<lines, old_iter>>
          ELSE
              /\ lines' = lines \o CopyRows(Unwrap(op.n))
              /\ old_iter' = CopyRest(Unwrap(op.n))
              /\ lc_pc' = IF CopyOk(Unwrap(op.n)) THEN "loop" ELSE "panic"
       ELSE IF op.op = "skip" THEN
          IF ~IsSome(op.n) THEN
              /\ lc_pc' = "panic"
              /\ UNCHANGED <<lines, old_iter>>
          ELSE
              /\ old_iter' = SkipRest(Unwrap(op.n))
              /\ lines' = lines
              /\ lc_pc' = "loop"
       ELSE IF op.op = "invalidate" THEN
          IF ~IsSome(op.n) THEN
              /\ lc_pc' = "panic"
              /\ UNCHANGED <<lines, old_iter>>
          ELSE
              /\ lines' = lines \o InvalidateRows(Unwrap(op.n))
              /\ old_iter' = old_iter
              /\ lc_pc' = "loop"
       ELSE
          /\ lc_pc' = "loop"
          /\ UNCHANGED <<lines, old_iter>>
    /\ OriginStep(op)

\* line 109: the loop has run out of ops; apply_update returns and its
\* locals (old_iter) are dropped
ApplyEnd ==
    /\ UNCHANGED <<rpc_vars, app_vars, cd_vars, fe_vars, ev_vars>>
    /\ lc_pc = "loop"
    /\ lc_pc' = "idle"
    /\ old_iter' = <<>>
    /\ cur_op' = NoOp
    /\ sum_emit' = 0
    /\ room' = 0
    /\ old_snap' = <<>>
    /\ origin' = <<>>
    /\ UNCHANGED <<lines, lc_hist>>

\* LineCache::new, lines 78-80
LcIdle ==
    /\ lines = <<>>
    /\ old_iter = <<>>
    /\ cur_op = NoOp
    /\ lc_pc = "idle"
    /\ sum_emit = 0
    /\ room = 0
    /\ old_snap = <<>>
    /\ origin = <<>>

LcInit0 == LcIdle /\ lc_hist = FALSE

LcNext ==
    \/ \E has_ops \in BOOLEAN : ApplyBegin(has_ops)
    \/ \E op \in OpMsgs : ApplyOp(op)
    \/ ApplyEnd

\* the updates whose rows are traced back to the snapshot, one row at a
\* time: copy a row, skip one row (n = 0) or two (n = 1), invalidate a row,
\* ins a line
SelOps ==
    {OpMsg("copy", Some(1), None), OpMsg("skip", Some(0), None), OpMsg("skip", Some(1), None),
     OpMsg("invalidate", Some(1), None), OpMsg("ins", None, Some(<<MsgA>>))}

SelNext ==
    \/ ApplyBegin(TRUE)
    \/ \E op \in SelOps : ApplyOp(op)
    \/ ApplyEnd

----------------------------------------------------------------------------
(* Core, src/rpc.rs *)

\* the thread spawned by Core::new (line 67); callers are 1..NumCallers
RxThread == 0
Callers == 1..NumCallers

\* the callbacks passed to send_request: caller 1 passes one that does not
\* touch the Core ("plain"), the other callers one that calls
\* send_notification on the Core it was registered with ("reenter")
CallbackOf(c) == IF c = 1 THEN "plain" ELSE "reenter"

\* an inbound message: method is msg["method"] when it is a string, id is
\* msg["id"].as_u64(); genuine (history) marks the peer's answer to a request
\* it was sent
InMsg(method, id, genuine) == [method |-> method, id |-> id, genuine |-> genuine]
NoMsg == InMsg(None, None, FALSE)

\* an outbound frame: id is Some(id) for a request, None for a notification
Frame(id) == [id |-> id]

\* self.state.lock() returns once no thread holds the mutex
CanLock_Always(t) == TRUE
CanLock(t) == lock = None

ReqLock_Unlocked(c) ==
    /\ UNCHANGED <<lc_vars, app_vars, cd_vars, fe_vars, ev_vars>>
    /\ c_pc[c] = "idle"
    /\ Len(alloc) < MaxRequests
    /\ c_id' = [c_id EXCEPT ![c] = cs_id]
    /\ c_cb' = [c_cb EXCEPT ![c] = CallbackOf(c)]
    /\ alloc' = Append(alloc, cs_id)
    /\ c_pc' = [c_pc EXCEPT ![c] = "req_write"]
    /\ UNCHANGED <<cs_id, pending, lock, poisoned, sent, rx_chan, rx_open, rx_pc, rx_msg,
                   rx_cb, owed, fired, written>>

\* lines 101-102: lock the state and read the next id
ReqLock(c) ==
    /\ UNCHANGED <<lc_vars, app_vars, cd_vars, fe_vars, ev_vars>>
    /\ c_pc[c] = "idle"
    /\ Len(alloc) < MaxRequests
    /\ CanLock(c)
    /\ IF poisoned
       THEN /\ c_pc' = [c_pc EXCEPT ![c] = "panic"]      \* lock().unwrap() on a poisoned mutex
            /\ UNCHANGED <<lock, c_id, c_cb, alloc>>
       ELSE /\ lock' = Some(c)
            /\ c_id' = [c_id EXCEPT ![c] = cs_id]
            /\ c_cb' = [c_cb EXCEPT ![c] = CallbackOf(c)]
            /\ alloc' = Append(alloc, cs_id)
            /\ c_pc' = [c_pc EXCEPT ![c] = "req_write"]
    /\ UNCHANGED <<cs_id, pending, poisoned, sent, rx_chan, rx_open, rx_pc, rx_msg, rx_cb,
                   owed, fired, written>>

\* lines 103-108: frame {method, params, id} and write it to the peer
ReqWrite(c) ==
    /\ UNCHANGED <<lc_vars, app_vars, cd_vars, fe_vars, ev_vars>>
    /\ c_pc[c] = "req_write"
    /\ Len(sent) < MaxPipe
    /\ sent' = Append(sent, Frame(Some(c_id[c])))
    /\ written' = Append(written, c_id[c])
    /\ c_pc' = [c_pc EXCEPT ![c] = "req_insert"]
    /\ UNCHANGED <<cs_id, pending, lock, poisoned, c_id, c_cb, rx_chan, rx_open, rx_pc,
                   rx_msg, rx_cb, alloc, owed, fired>>

ReqInsert_NoIncr(c) ==
    /\ UNCHANGED <<lc_vars, app_vars, cd_vars, fe_vars, ev_vars>>
    /\ c_pc[c] = "req_insert"
    /\ pending' = [i \in DOMAIN pending \cup {c_id[c]} |->
                      IF i = c_id[c] THEN c_cb[c] ELSE pending[i]]
    /\ cs_id' = cs_id
    /\ lock' = IF lock = Some(c) THEN None ELSE lock
    /\ c_pc' = [c_pc EXCEPT ![c] = "idle"]
    /\ c_id' = [c_id EXCEPT ![c] = 0]
    /\ c_cb' = [c_cb EXCEPT ![c] = "plain"]
    /\ UNCHANGED <<poisoned, sent, rx_chan, rx_open, rx_pc, rx_msg, rx_cb, alloc, owed,
                   fired, written>>

\* lines 109-111: state.pending.insert(id, callback); state.id += 1; the
\* guard is dropped on return
ReqInsert(c) ==
    /\ UNCHANGED <<lc_vars, app_vars, cd_vars, fe_vars, ev_vars>>
    /\ c_pc[c] = "req_insert"
    /\ pending' = [i \in DOMAIN pending \cup {c_id[c]} |->
                      IF i = c_id[c] THEN c_cb[c] ELSE pending[i]]
    /\ cs_id' = cs_id + 1
    /\ lock' = IF lock = Some(c) THEN None ELSE lock
    /\ c_pc' = [c_pc EXCEPT ![c] = "idle"]
    /\ c_id' = [c_id EXCEPT ![c] = 0]
    /\ c_cb' = [c_cb EXCEPT ![c] = "plain"]
    /\ UNCHANGED <<poisoned, sent, rx_chan, rx_open, rx_pc, rx_msg, rx_cb, alloc, owed, fired, written>>

\* line 92: send_notification locks the state
NoteLock(c) ==
    /\ UNCHANGED <<lc_vars, app_vars, cd_vars, fe_vars, ev_vars>>
    /\ c_pc[c] = "idle"
    /\ CanLock(c)
    /\ IF poisoned
       THEN /\ c_pc' = [c_pc EXCEPT ![c] = "panic"]
            /\ lock' = lock
       ELSE /\ lock' = Some(c)
            /\ c_pc' = [c_pc EXCEPT ![c] = "note_write"]
    /\ UNCHANGED <<cs_id, pending, poisoned, sent, c_id, c_cb, rx_chan, rx_open, rx_pc,
                   rx_msg, rx_cb, alloc, owed, fired, written>>

NoteWrite_WithId(c) ==
    /\ UNCHANGED <<lc_vars, app_vars, cd_vars, fe_vars, ev_vars>>
    /\ c_pc[c] = "note_write"
    /\ Len(sent) < MaxPipe
    /\ sent' = Append(sent, Frame(Some(cs_id)))
    /\ cs_id' = cs_id + 1
    /\ lock' = IF lock = Some(c) THEN None ELSE lock
    /\ c_pc' = [c_pc EXCEPT ![c] = "idle"]
    /\ UNCHANGED <<pending, poisoned, c_id, c_cb, rx_chan, rx_open, rx_pc, rx_msg,
                   rx_cb, alloc, owed, fired, written>>

\* lines 93-94: write the frame {method, params}; the guard is dropped on return
NoteWrite(c) ==
    /\ UNCHANGED <<lc_vars, app_vars, cd_vars, fe_vars, ev_vars>>
    /\ c_pc[c] = "note_write"
    /\ Len(sent) < MaxPipe
    /\ sent' = Append(sent, Frame(None))
    /\ lock' = IF lock = Some(c) THEN None ELSE lock
    /\ c_pc' = [c_pc EXCEPT ![c] = "idle"]
    /\ UNCHANGED <<cs_id, pending, poisoned, c_id, c_cb, rx_chan, rx_open, rx_pc, rx_msg,
                   rx_cb, alloc, owed, fired, written>>

\* the peer reads the next frame; a request is one it owes an answer to
PeerRead ==
    /\ UNCHANGED <<lc_vars, app_vars, cd_vars, fe_vars, ev_vars>>
    /\ sent # <<>>
    /\ sent' = Tail(sent)
    /\ owed' = IF IsSome(Head(sent).id) THEN owed \cup {Unwrap(Head(sent).id)} ELSE owed
    /\ UNCHANGED <<cs_id, pending, lock, poisoned, c_pc, c_id, c_cb, rx_chan, rx_open, rx_pc,
                   rx_msg, rx_cb, alloc, fired, written>>

\* the peer answers a request it has read; q bounds the channel
PeerRespondUpTo(i, q) ==
    /\ UNCHANGED <<lc_vars, app_vars, cd_vars, fe_vars, ev_vars>>
    /\ rx_open
    /\ Len(rx_chan) < q
    /\ i \in owed
    /\ owed' = owed \ {i}
    /\ rx_chan' = Append(rx_chan, InMsg(None, Some(i), TRUE))
    /\ UNCHANGED <<cs_id, pending, lock, poisoned, sent, c_pc, c_id, c_cb, rx_open, rx_pc,
                   rx_msg, rx_cb, alloc, fired, written>>

\* anything else the peer may send: a notification (it carries an id as
\* well, which rpc.rs:69 does not look at), a message with neither field,
\* and a response that is not the answer to a request: with the first id,
\* or with an id never allocated
ExtraMsgs ==
    {InMsg(Some("update"), Some(0), FALSE), InMsg(None, None, FALSE)}
    \cup {InMsg(None, Some(i), FALSE) : i \in {0, MaxRequests}}
\* with the notification that carries no id
OrderMsgs == ExtraMsgs \cup {InMsg(Some("update"), None, FALSE)}

PeerSendUpTo(m, q) ==
    /\ UNCHANGED <<lc_vars, app_vars, cd_vars, fe_vars, ev_vars>>
    /\ rx_open
    /\ Len(rx_chan) < q
    /\ rx_chan' = Append(rx_chan, m)
    /\ UNCHANGED <<cs_id, pending, lock, poisoned, sent, c_pc, c_id, c_cb, rx_open, rx_pc,
                   rx_msg, rx_cb, owed, alloc, fired, written>>

PeerRespond(i) == PeerRespondUpTo(i, MaxQueue)
PeerSend(m) == PeerSendUpTo(m, MaxQueue)

\* the peer goes away: the sending half of the channel is dropped
PeerClose ==
    /\ UNCHANGED <<lc_vars, app_vars, cd_vars, fe_vars, ev_vars>>
    /\ rx_open
    /\ rx_open' = FALSE
    /\ UNCHANGED <<cs_id, pending, lock, poisoned, sent, c_pc, c_id, c_cb, rx_chan, rx_pc,
                   rx_msg, rx_cb, alloc, owed, fired, written>>

RxRecv_Unwrap ==
    /\ UNCHANGED <<lc_vars, app_vars, cd_vars, fe_vars, ev_vars>>
    /\ rx_pc = "recv"
    /\ IF rx_chan # <<>>
       THEN /\ rx_msg' = Head(rx_chan)
            /\ rx_chan' = Tail(rx_chan)
            /\ rx_pc' = "got"
       ELSE /\ ~rx_open
            /\ rx_pc' = "panic"
            /\ UNCHANGED <<rx_msg, rx_chan>>
    /\ UNCHANGED <<cs_id, pending, lock, poisoned, sent, c_pc, c_id, c_cb, rx_open, rx_cb,
                   alloc, owed, fired, written>>

RxRecv_Lifo ==
    /\ UNCHANGED <<lc_vars, app_vars, cd_vars, fe_vars, ev_vars>>
    /\ rx_pc = "recv"
    /\ IF rx_chan # <<>>
       THEN /\ rx_msg' = rx_chan[Len(rx_chan)]
            /\ rx_chan' = SubSeq(rx_chan, 1, Len(rx_chan) - 1)
            /\ rx_pc' = "got"
       ELSE /\ ~rx_open
            /\ rx_pc' = "exit"
            /\ UNCHANGED <<rx_msg, rx_chan>>
    /\ UNCHANGED <<cs_id, pending, lock, poisoned, sent, c_pc, c_id, c_cb, rx_open, rx_cb,
                   alloc, owed, fired, written>>

\* line 68: rx.recv() yields the next message, or Err once the channel is
\* closed and empty, which ends the loop
RxRecv ==
    /\ UNCHANGED <<lc_vars, app_vars, cd_vars, fe_vars, ev_vars>>
    /\ rx_pc = "recv"
    /\ IF rx_chan # <<>>
       THEN /\ rx_msg' = Head(rx_chan)
            /\ rx_chan' = Tail(rx_chan)
            /\ rx_pc' = "got"
       ELSE /\ ~rx_open
            /\ rx_pc' = "exit"
            /\ UNCHANGED <<rx_msg, rx_chan>>
    /\ UNCHANGED <<cs_id, pending, lock, poisoned, sent, c_pc, c_id, c_cb, rx_open, rx_cb,
                   alloc, owed, fired, written>>

\* lines 69-70: a string method: handler.notification(method, params)
RxNotify ==
    /\ UNCHANGED <<lc_vars, app_vars, cd_vars, fe_vars, ev_vars>>
    /\ rx_pc = "got"
    /\ IsSome(rx_msg.method)
    /\ rx_pc' = "notified"
    /\ UNCHANGED <<cs_id, pending, lock, poisoned, sent, c_pc, c_id, c_cb, rx_chan,
                   rx_open, rx_msg, rx_cb, alloc, owed, fired, written>>

RxLock_IdFirst ==
    /\ UNCHANGED <<lc_vars, app_vars, cd_vars, fe_vars, ev_vars>>
    /\ rx_pc = "got"
    /\ IsSome(rx_msg.id)
    /\ CanLock(RxThread)
    /\ lock' = Some(RxThread)
    /\ rx_pc' = "locked"
    /\ UNCHANGED <<cs_id, pending, poisoned, sent, c_pc, c_id, c_cb, rx_chan, rx_open,
                   rx_msg, rx_cb, alloc, owed, fired, written>>

RxLock_NoWait ==
    /\ UNCHANGED <<lc_vars, app_vars, cd_vars, fe_vars, ev_vars>>
    /\ rx_pc = "got"
    /\ ~IsSome(rx_msg.method) /\ IsSome(rx_msg.id)
    /\ rx_pc' = "locked"
    /\ UNCHANGED <<cs_id, pending, lock, poisoned, sent, c_pc, c_id, c_cb, rx_chan, rx_open,
                   rx_msg, rx_cb, alloc, owed, fired, written>>

\* lines 71-72: a numeric id: lock the state
RxLock ==
    /\ UNCHANGED <<lc_vars, app_vars, cd_vars, fe_vars, ev_vars>>
    /\ rx_pc = "got"
    /\ ~IsSome(rx_msg.method) /\ IsSome(rx_msg.id)
    /\ CanLock(RxThread)
    /\ lock' = Some(RxThread)
    /\ rx_pc' = "locked"
    /\ UNCHANGED <<cs_id, pending, poisoned, sent, c_pc, c_id, c_cb, rx_chan, rx_open,
                   rx_msg, rx_cb, alloc, owed, fired, written>>

RxRemove_Unwrap ==
    /\ UNCHANGED <<lc_vars, app_vars, cd_vars, fe_vars, ev_vars>>
    /\ rx_pc = "locked"
    /\ LET id == Unwrap(rx_msg.id)
       IN  IF id \in DOMAIN pending
           THEN /\ pending' = [i \in DOMAIN pending \ {id} |-> pending[i]]
                /\ rx_cb' = Some(pending[id])
                /\ rx_pc' = "callback"
           ELSE /\ rx_pc' = "panic"
                /\ UNCHANGED <<pending, rx_cb>>
    /\ UNCHANGED <<cs_id, lock, poisoned, sent, c_pc, c_id, c_cb, rx_chan, rx_open, rx_msg,
                   alloc, owed, fired, written>>

RxRemove_Keep ==
    /\ UNCHANGED <<lc_vars, app_vars, cd_vars, fe_vars, ev_vars>>
    /\ rx_pc = "locked"
    /\ LET id == Unwrap(rx_msg.id)
       IN  IF id \in DOMAIN pending
           THEN /\ pending' = pending
                /\ rx_cb' = Some(pending[id])
                /\ rx_pc' = "callback"
           ELSE /\ rx_pc' = "unexpected"
                /\ UNCHANGED <<pending, rx_cb>>
    /\ UNCHANGED <<cs_id, lock, poisoned, sent, c_pc, c_id, c_cb, rx_chan, rx_open, rx_msg,
                   alloc, owed, fired, written>>

\* lines 73-74: state.pending.remove(&id); None is reported as unexpected
RxRemove ==
    /\ UNCHANGED <<lc_vars, app_vars, cd_vars, fe_vars, ev_vars>>
    /\ rx_pc = "locked"
    /\ LET id == Unwrap(rx_msg.id)
       IN  IF id \in DOMAIN pending
           THEN /\ pending' = [i \in DOMAIN pending \ {id} |-> pending[i]]
                /\ rx_cb' = Some(pending[id])
                /\ rx_pc' = "callback"
           ELSE /\ rx_pc' = "unexpected"
                /\ UNCHANGED <<pending, rx_cb>>
    /\ UNCHANGED <<cs_id, lock, poisoned, sent, c_pc, c_id, c_cb, rx_chan, rx_open, rx_msg,
                   alloc, owed, fired, written>>

\* lines 75-77: callback.call(&msg["result"]), inside the scope of `state`.
\* A callback that locks the Core's state again waits for the mutex; when
\* its own thread holds it, std leaves the outcome open: it never returns
\* ("stuck") or it panics, which poisons the mutex.
RxCall ==
    /\ UNCHANGED <<lc_vars, app_vars, cd_vars, fe_vars, ev_vars>>
    /\ rx_pc = "callback"
    /\ rx_cb' = None
    /\ fired' = fired \cup {Unwrap(rx_msg.id)}
    /\ IF Unwrap(rx_cb) = "plain" THEN
           /\ rx_pc' = "called"
           /\ UNCHANGED <<lock, poisoned, sent>>
       ELSE IF lock = Some(RxThread) THEN
           \/ /\ rx_pc' = "stuck"
              /\ UNCHANGED <<lock, poisoned, sent>>
           \/ /\ rx_pc' = "panic"
              /\ lock' = None
              /\ poisoned' = TRUE
              /\ sent' = sent
       ELSE
           /\ lock = None
           /\ sent' = Append(sent, Frame(None))
           /\ rx_pc' = "called"
           /\ UNCHANGED <<lock, poisoned>>
    /\ UNCHANGED <<cs_id, pending, c_pc, c_id, c_cb, rx_chan, rx_open, rx_msg, alloc, owed, written>>

\* lines 78-82: the end of the branch drops the guard (when the branch took
\* one) and the loop goes back to rx.recv()
RxUnlock ==
    /\ UNCHANGED <<lc_vars, app_vars, cd_vars, fe_vars, ev_vars>>
    /\ rx_pc \in {"called", "unexpected", "logged", "notified"}
    /\ lock' = IF lock = Some(RxThread) THEN None ELSE lock
    /\ rx_pc' = "recv"
    /\ rx_msg' = NoMsg
    /\ UNCHANGED <<cs_id, pending, poisoned, sent, c_pc, c_id, c_cb, rx_chan, rx_open,
                   rx_cb, alloc, owed, fired, written>>

RxLog_Break ==
    /\ UNCHANGED <<lc_vars, app_vars, cd_vars, fe_vars, ev_vars>>
    /\ rx_pc = "got"
    /\ ~IsSome(rx_msg.method) /\ ~IsSome(rx_msg.id)
    /\ rx_pc' = "exit"
    /\ UNCHANGED <<cs_id, pending, lock, poisoned, sent, c_pc, c_id, c_cb, rx_chan,
                   rx_open, rx_msg, rx_cb, alloc, owed, fired, written>>

\* lines 79-80: neither a method nor an id: the message is printed
RxLog ==
    /\ UNCHANGED <<lc_vars, app_vars, cd_vars, fe_vars, ev_vars>>
    /\ rx_pc = "got"
    /\ ~IsSome(rx_msg.method) /\ ~IsSome(rx_msg.id)
    /\ rx_pc' = "logged"
    /\ UNCHANGED <<cs_id, pending, lock, poisoned, sent, c_pc, c_id, c_cb, rx_chan,
                   rx_open, rx_msg, rx_cb, alloc, owed, fired, written>>

\* lines 58-65: the state Core::new builds
RpcInit0 ==
    /\ cs_id = 0
    /\ pending = <<>>
    /\ lock = None
    /\ poisoned = FALSE
    /\ sent = <<>>
    /\ c_pc = [c \in Callers |-> "idle"]
    /\ c_id = [c \in Callers |-> 0]
    /\ c_cb = [c \in Callers |-> "plain"]
    /\ rx_chan = <<>>
    /\ rx_open = TRUE
    /\ rx_pc = "recv"
    /\ rx_msg = NoMsg
    /\ rx_cb = None
    /\ owed = {}
    /\ alloc = <<>>
    /\ fired = {}
    /\ written = <<>>

RpcNext ==
    \/ \E c \in Callers : ReqLock(c)
    \/ \E c \in Callers : ReqWrite(c)
    \/ \E c \in Callers : ReqInsert(c)
    \/ \E c \in Callers : NoteLock(c)
    \/ \E c \in Callers : NoteWrite(c)
    \/ PeerRead
    \/ \E i \in 0..MaxRequests : PeerRespond(i)
    \/ \E m \in ExtraMsgs : PeerSend(m)
    \/ PeerClose
    \/ RxRecv
    \/ RxNotify
    \/ RxLock
    \/ RxRemove
    \/ RxCall
    \/ RxUnlock
    \/ RxLog

\* one calling thread, whose callback leaves the Core alone, and up to
\* MaxInbox messages waiting in the channel
OrderNext ==
    \/ ReqLock(1)
    \/ ReqWrite(1)
    \/ ReqInsert(1)
    \/ PeerRead
    \/ \E i \in 0..MaxRequests : PeerRespondUpTo(i, MaxInbox)
    \/ \E m \in OrderMsgs : PeerSendUpTo(m, MaxInbox)
    \/ PeerClose
    \/ RxRecv
    \/ RxNotify
    \/ RxLock
    \/ RxRemove
    \/ RxCall
    \/ RxUnlock
    \/ RxLog

----------------------------------------------------------------------------
(* The application: AppDispatcher, App and AppState of src/main.rs, as the  *)
(* receive thread of Core::new drives them                                  *)

ViewIds == {"view-id-1", "view-id-2"}

\* an inbound message as main.rs reads it: method is msg["method"] when a
\* string, line is params["line"].as_u64(), id is msg["id"].as_u64(),
\* result is msg["result"].as_str()
AppMsg(method, line, id, result) ==
    [method |-> method, line |-> line, id |-> id, result |-> result]
NoAppMsg == AppMsg(None, None, None, None)

\* the notifications the core may send
AppNotes ==
    {AppMsg(Some("update"), None, None, None),
     AppMsg(Some("scroll_to"), Some(0), None, None),
     AppMsg(Some("scroll_to"), None, None, None),
     AppMsg(Some("config_changed"), None, None, None),
     AppMsg(Some("alert"), None, None, None),
     NoAppMsg}
\* the responses: to a new_view request, with a view id or with a result
\* that is no string
AppResponses ==
    {AppMsg(None, None, Some(i), r) : i \in 0..(MaxViews - 1),
                                     r \in {None} \cup {Some(v) : v \in ViewIds}}

\* what a call ends in: it returns, or it panics holding the guard of
\* AppDispatcher.app alone, or holding that of App.state as well
Ok == "ok"
PanicApp == "panic_app"
PanicBoth == "panic_both"

\* main.rs:93-102 and 123-128: send_view_cmd locks App.state and asks for
\* the focused view, which must exist
send_view_cmd ==
    IF state_poisoned THEN PanicApp                      \* get_state(): lock().unwrap()
    ELSE IF ~IsSome(focused) THEN PanicBoth              \* expect("no focused viewstate")
    ELSE IF Unwrap(focused) \notin views THEN PanicBoth  \* expect("... not found in views")
    ELSE Ok

\* main.rs:174-187
handle_cmd(m) ==
    IF Unwrap(m.method) = "update" THEN send_view_cmd
    ELSE IF Unwrap(m.method) = "scroll_to" THEN
        IF ~IsSome(m.line) THEN PanicApp                 \* as_u64().unwrap()
        ELSE send_view_cmd
    ELSE Ok

\* main.rs:330-338: AppDispatcher::notification
notification(m) ==
    IF app_poisoned THEN "panic"                         \* self.app.lock().unwrap()
    ELSE IF ~app THEN Ok
    ELSE handle_cmd(m)

\* main.rs:384: handler.set_app(&app)
SetApp ==
    /\ UNCHANGED <<lc_vars, rpc_vars, cd_vars, fe_vars, ev_vars>>
    /\ ui_pc = "new"
    /\ app' = TRUE
    /\ ui_pc' = "started"
    /\ UNCHANGED <<focused, views, app_poisoned, state_poisoned, nv_pending, nv_id,
                   in_chan, in_open, rt_pc, rt_msg>>

\* main.rs:389 and 142-172: req_new_view registers the completion under
\* the next id
ReqNewView ==
    /\ UNCHANGED <<lc_vars, rpc_vars, cd_vars, fe_vars, ev_vars>>
    /\ ui_pc = "started"
    /\ nv_pending' = nv_pending \cup {nv_id}
    /\ nv_id' = nv_id + 1
    /\ ui_pc' = "run"
    /\ UNCHANGED <<app, focused, views, app_poisoned, state_poisoned, in_chan, in_open,
                   rt_pc, rt_msg>>

\* main.rs:213-231: the Open command: lock AppDispatcher.app, lock
\* App.state, get the focused view, req_new_view for the chosen file
MenuOpen ==
    /\ UNCHANGED <<lc_vars, rpc_vars, cd_vars, fe_vars, ev_vars>>
    /\ ui_pc = "run"
    /\ nv_id < MaxViews
    /\ IF app_poisoned THEN
           /\ ui_pc' = "panic"
           /\ UNCHANGED <<app_poisoned, state_poisoned, nv_pending, nv_id>>
       ELSE IF send_view_cmd # Ok THEN
           /\ ui_pc' = "panic"
           /\ app_poisoned' = TRUE
           /\ state_poisoned' = (state_poisoned \/ send_view_cmd = PanicBoth)
           /\ UNCHANGED <<nv_pending, nv_id>>
       ELSE
           /\ nv_pending' = nv_pending \cup {nv_id}
           /\ nv_id' = nv_id + 1
           /\ UNCHANGED <<ui_pc, app_poisoned, state_poisoned>>
    /\ UNCHANGED <<app, focused, views, in_chan, in_open, rt_pc, rt_msg>>

\* the core writes a message
CoreSend(m) ==
    /\ UNCHANGED <<lc_vars, rpc_vars, cd_vars, fe_vars, ev_vars>>
    /\ in_open
    /\ Len(in_chan) < MaxQueue
    /\ in_chan' = Append(in_chan, m)
    /\ UNCHANGED <<app, focused, views, app_poisoned, state_poisoned, nv_pending, nv_id,
                   in_open, rt_pc, rt_msg, ui_pc>>

\* the core process exits
CoreExit ==
    /\ UNCHANGED <<lc_vars, rpc_vars, cd_vars, fe_vars, ev_vars>>
    /\ in_open
    /\ in_open' = FALSE
    /\ UNCHANGED <<app, focused, views, app_poisoned, state_poisoned, nv_pending, nv_id,
                   in_chan, rt_pc, rt_msg, ui_pc>>

\* rpc.rs:68: rx.recv()
RtRecv ==
    /\ UNCHANGED <<lc_vars, rpc_vars, cd_vars, fe_vars, ev_vars>>
    /\ rt_pc = "recv"
    /\ IF in_chan # <<>>
       THEN /\ rt_msg' = Head(in_chan)
            /\ in_chan' = Tail(in_chan)
            /\ rt_pc' = "got"
       ELSE /\ ~in_open
            /\ rt_pc' = "exit"
            /\ UNCHANGED <<rt_msg, in_chan>>
    /\ UNCHANGED <<app, focused, views, app_poisoned, state_poisoned, nv_pending, nv_id,
                   in_open, ui_pc>>

\* rpc.rs:69-70 with main.rs:330-338: the handler runs on the receive
\* thread; a panic in it unwinds that thread and poisons the mutexes whose
\* guards it holds.  The message stays in rt_msg when the thread has died.
RtNotification ==
    /\ UNCHANGED <<lc_vars, rpc_vars, cd_vars, fe_vars, ev_vars>>
    /\ rt_pc = "got"
    /\ IsSome(rt_msg.method)
    /\ LET r == notification(rt_msg)
       IN  IF r = Ok
           THEN /\ rt_pc' = "recv"
                /\ rt_msg' = NoAppMsg
                /\ UNCHANGED <<app_poisoned, state_poisoned>>
           ELSE /\ rt_pc' = "panic"
                /\ rt_msg' = rt_msg
                /\ app_poisoned' = (app_poisoned \/ r \in {PanicApp, PanicBoth})
                /\ state_poisoned' = (state_poisoned \/ r = PanicBoth)
    /\ UNCHANGED <<app, focused, views, nv_pending, nv_id, in_chan, in_open, ui_pc>>

InsertView_Skip(view_id) == views
\* main.rs:161-168: state.views.insert(view_id, ViewState {..})
InsertView(view_id) == views \cup {view_id}

\* rpc.rs:71-78 with main.rs:156-171: the completion of new_view sets
\* focused and inserts the view under the lock of App.state
RtCompletion ==
    /\ UNCHANGED <<lc_vars, rpc_vars, cd_vars, fe_vars, ev_vars>>
    /\ rt_pc = "got"
    /\ ~IsSome(rt_msg.method) /\ IsSome(rt_msg.id)
    /\ LET id == Unwrap(rt_msg.id)
       IN  IF id \notin nv_pending THEN                  \* "unexpected result"
               /\ rt_pc' = "recv"
               /\ rt_msg' = NoAppMsg
               /\ UNCHANGED <<focused, views, nv_pending, state_poisoned>>
           ELSE
               /\ nv_pending' = nv_pending \ {id}
               /\ IF ~IsSome(rt_msg.result) \/ state_poisoned THEN
                      \* value.as_str().unwrap(), state.lock().unwrap()
                      /\ rt_pc' = "panic"
                      /\ rt_msg' = rt_msg
                      /\ UNCHANGED <<focused, views, state_poisoned>>
                  ELSE
                      /\ focused' = rt_msg.result
                      /\ views' = InsertView(Unwrap(rt_msg.result))
                      /\ rt_pc' = "recv"
                      /\ rt_msg' = NoAppMsg
                      /\ UNCHANGED state_poisoned
    /\ UNCHANGED <<app, app_poisoned, nv_id, in_chan, in_open, ui_pc>>

\* rpc.rs:79-80
RtLog ==
    /\ UNCHANGED <<lc_vars, rpc_vars, cd_vars, fe_vars, ev_vars>>
    /\ rt_pc = "got"
    /\ ~IsSome(rt_msg.method) /\ ~IsSome(rt_msg.id)
    /\ rt_pc' = "recv"
    /\ rt_msg' = NoAppMsg
    /\ UNCHANGED <<app, focused, views, app_poisoned, state_poisoned, nv_pending, nv_id,
                   in_chan, in_open, ui_pc>>

\* main.rs:371-383: AppDispatcher::new, Core::new, App::new
AppInit0 ==
    /\ app = FALSE
    /\ focused = None
    /\ views = {}
    /\ app_poisoned = FALSE
    /\ state_poisoned = FALSE
    /\ nv_pending = {}
    /\ nv_id = 0
    /\ in_chan = <<>>
    /\ in_open = TRUE
    /\ rt_pc = "recv"
    /\ rt_msg = NoAppMsg
    /\ ui_pc = "new"

AppNext ==
    \/ SetApp
    \/ ReqNewView
    \/ MenuOpen
    \/ \E m \in AppNotes \cup AppResponses : CoreSend(m)
    \/ CoreExit
    \/ RtRecv
    \/ RtNotification
    \/ RtCompletion
    \/ RtLog

----------------------------------------------------------------------------
(* The threads and mutexes of the front end: the main (UI) thread running  *)
(* main and the menu listeners of src/main.rs, and the receive thread of   *)
(* Core::new (src/rpc.rs).  The mutex of App.core (main.rs:107) is taken   *)
(* by the main thread alone and is left out.  A panic of the main thread   *)
(* ends the process.                                                       *)

Ui == "ui"
Rt == "rt"

FeNote == [kind |-> "note", id |-> 0]
FeResp(i) == [kind |-> "resp", id |-> i]
FeNoMsg == [kind |-> "none", id |-> 0]

FeAlive == fe_ui # "panic"

\* main.rs:384-386: handler.set_app(&app), then the client_started
\* notification; main goes on to req_new_view (line 389)
FeStart ==
    /\ UNCHANGED <<lc_vars, rpc_vars, app_vars, cd_vars, ev_vars>>
    /\ fe_ui = "new"
    /\ fe_app = None
    /\ fe_cs = None
    /\ fe_ui' = "req"
    /\ fe_cmd' = "start"
    /\ UNCHANGED <<fe_app, fe_state, fe_cs, fe_poisoned, fe_focused, fe_pending, fe_next,
                   fe_owed, fe_chan, fe_rt, fe_msg>>

\* main.rs:213-214 and 232-233: the Open or the Save command locks
\* AppDispatcher.app and keeps the guard for the whole branch
UiCommand(cmd) ==
    /\ UNCHANGED <<lc_vars, rpc_vars, app_vars, cd_vars, ev_vars>>
    /\ fe_ui = "idle"
    /\ cmd = "open" => fe_next < MaxViews
    /\ fe_app = None
    /\ IF "app" \in fe_poisoned
       THEN /\ fe_ui' = "panic"
            /\ UNCHANGED <<fe_app, fe_cmd>>
       ELSE /\ fe_app' = Some(Ui)
            /\ fe_ui' = "has_app"
            /\ fe_cmd' = cmd
    /\ UNCHANGED <<fe_state, fe_cs, fe_poisoned, fe_focused, fe_pending, fe_next,
                   fe_owed, fe_chan, fe_rt, fe_msg>>

\* main.rs:215-224 and 239-245: the file dialog is cancelled (or gives no
\* valid name) and the listener returns, dropping the guard
UiCancel ==
    /\ UNCHANGED <<lc_vars, rpc_vars, app_vars, cd_vars, ev_vars>>
    /\ fe_ui = "has_app"
    /\ fe_app' = None
    /\ fe_ui' = "idle"
    /\ fe_cmd' = "none"
    /\ UNCHANGED <<fe_state, fe_cs, fe_poisoned, fe_focused, fe_pending, fe_next,
                   fe_owed, fe_chan, fe_rt, fe_msg>>

\* main.rs:234-248: Save first looks at the focused view's filename under
\* a guard of App.state that it drops at the end of the block
UiSaveCheck ==
    /\ UNCHANGED <<lc_vars, rpc_vars, app_vars, cd_vars, ev_vars>>
    /\ fe_ui = "has_app" /\ fe_cmd = "save"
    /\ fe_state = None
    /\ fe_ui' = IF "state" \in fe_poisoned \/ ~fe_focused THEN "panic" ELSE "save_named"
    /\ UNCHANGED <<fe_app, fe_state, fe_cs, fe_poisoned, fe_focused, fe_pending, fe_next,
                   fe_owed, fe_chan, fe_cmd, fe_rt, fe_msg>>

\* main.rs:226-227 (Open) and 249-250 (Save): app.get_state() and the
\* focused view; the guard lives to the end of the branch
UiLockState ==
    /\ UNCHANGED <<lc_vars, rpc_vars, app_vars, cd_vars, ev_vars>>
    /\ \/ fe_ui = "has_app" /\ fe_cmd = "open"
       \/ fe_ui = "save_named"
    /\ fe_state = None
    /\ IF "state" \in fe_poisoned \/ ~fe_focused
       THEN /\ fe_ui' = "panic"
            /\ UNCHANGED fe_state
       ELSE /\ fe_state' = Some(Ui)
            /\ fe_ui' = "has_state"
    /\ UNCHANGED <<fe_app, fe_cs, fe_poisoned, fe_focused, fe_pending, fe_next,
                   fe_owed, fe_chan, fe_cmd, fe_rt, fe_msg>>

\* rpc.rs:91 and 104: send_notification and send_request lock Core.state;
\* main.rs:228 and 251 call them with the guard of App.state alive, main.rs:389
\* without
UiLockCore ==
    /\ UNCHANGED <<lc_vars, rpc_vars, app_vars, cd_vars, ev_vars>>
    /\ fe_ui \in {"req", "has_state"}
    /\ fe_cs = None
    /\ IF "cs" \in fe_poisoned
       THEN /\ fe_ui' = "panic"
            /\ UNCHANGED fe_cs
       ELSE /\ fe_cs' = Some(Ui)
            /\ fe_ui' = "in_core"
    /\ UNCHANGED <<fe_app, fe_state, fe_poisoned, fe_focused, fe_pending, fe_next,
                   fe_owed, fe_chan, fe_cmd, fe_rt, fe_msg>>

\* rpc.rs:92-93 and 105-111: the frame is written, a request registers its
\* completion, the guard of Core.state is dropped; then the branch of the
\* listener ends and drops its guards
UiSend ==
    /\ UNCHANGED <<lc_vars, rpc_vars, app_vars, cd_vars, ev_vars>>
    /\ fe_ui = "in_core"
    /\ IF fe_cmd = "save"
       THEN UNCHANGED <<fe_pending, fe_next, fe_owed>>
       ELSE /\ fe_pending' = fe_pending \cup {fe_next}
            /\ fe_owed' = fe_owed \cup {fe_next}
            /\ fe_next' = fe_next + 1
    /\ fe_cs' = None
    /\ fe_state' = None
    /\ fe_app' = None
    /\ fe_ui' = "idle"
    /\ fe_cmd' = "none"
    /\ UNCHANGED <<fe_poisoned, fe_focused, fe_chan, fe_rt, fe_msg>>

\* the core answers a request it has read
FeCoreRespond(i) ==
    /\ UNCHANGED <<lc_vars, rpc_vars, app_vars, cd_vars, ev_vars>>
    /\ FeAlive
    /\ i \in fe_owed
    /\ Len(fe_chan) < MaxQueue
    /\ fe_chan' = Append(fe_chan, FeResp(i))
    /\ fe_owed' = fe_owed \ {i}
    /\ UNCHANGED <<fe_app, fe_state, fe_cs, fe_poisoned, fe_focused, fe_pending, fe_next,
                   fe_ui, fe_cmd, fe_rt, fe_msg>>

\* the core sends an `update` notification
FeCoreUpdate ==
    /\ UNCHANGED <<lc_vars, rpc_vars, app_vars, cd_vars, ev_vars>>
    /\ FeAlive
    /\ Len(fe_chan) < MaxQueue
    /\ fe_chan' = Append(fe_chan, FeNote)
    /\ UNCHANGED <<fe_app, fe_state, fe_cs, fe_poisoned, fe_focused, fe_pending, fe_next,
                   fe_owed, fe_ui, fe_cmd, fe_rt, fe_msg>>

\* rpc.rs:68: rx.recv()
FeRecv ==
    /\ UNCHANGED <<lc_vars, rpc_vars, app_vars, cd_vars, ev_vars>>
    /\ FeAlive
    /\ fe_rt = "recv"
    /\ fe_chan # <<>>
    /\ fe_msg' = Head(fe_chan)
    /\ fe_chan' = Tail(fe_chan)
    /\ fe_rt' = "got"
    /\ UNCHANGED <<fe_app, fe_state, fe_cs, fe_poisoned, fe_focused, fe_pending, fe_next,
                   fe_owed, fe_ui, fe_cmd>>

\* rpc.rs:69-70 and main.rs:334: the handler locks AppDispatcher.app; with
\* no App set yet it returns
FeHandlerLock ==
    /\ UNCHANGED <<lc_vars, rpc_vars, app_vars, cd_vars, ev_vars>>
    /\ FeAlive
    /\ fe_rt = "got" /\ fe_msg.kind = "note"
    /\ fe_app = None
    /\ IF "app" \in fe_poisoned
       THEN /\ fe_rt' = "panic"
            /\ UNCHANGED <<fe_app, fe_msg>>
       ELSE IF fe_ui = "new"
       THEN /\ fe_rt' = "recv"
            /\ fe_msg' = FeNoMsg
            /\ UNCHANGED fe_app
       ELSE /\ fe_app' = Some(Rt)
            /\ fe_rt' = "handler"
            /\ UNCHANGED fe_msg
    /\ UNCHANGED <<fe_state, fe_cs, fe_poisoned, fe_focused, fe_pending, fe_next,
                   fe_owed, fe_chan, fe_ui, fe_cmd>>

\* main.rs:335, 176 and 123-128: handle_cmd("update") is send_view_cmd,
\* which locks App.state and needs the focused view; the guards are dropped
\* on return, and poison their mutexes on a panic
FeViewCmd ==
    /\ UNCHANGED <<lc_vars, rpc_vars, app_vars, cd_vars, ev_vars>>
    /\ FeAlive
    /\ fe_rt = "handler"
    /\ fe_state = None
    /\ fe_app' = None
    /\ IF "state" \in fe_poisoned
       THEN /\ fe_rt' = "panic"
            /\ fe_poisoned' = fe_poisoned \cup {"app"}
            /\ UNCHANGED fe_msg
       ELSE IF ~fe_focused
       THEN /\ fe_rt' = "panic"
            /\ fe_poisoned' = fe_poisoned \cup {"app", "state"}
            /\ UNCHANGED fe_msg
       ELSE /\ fe_rt' = "recv"
            /\ fe_msg' = FeNoMsg
            /\ UNCHANGED fe_poisoned
    /\ UNCHANGED <<fe_state, fe_cs, fe_focused, fe_pending, fe_next, fe_owed, fe_chan,
                   fe_ui, fe_cmd>>

\* rpc.rs:71-72: a response; state.lock().unwrap()
FeRespLock ==
    /\ UNCHANGED <<lc_vars, rpc_vars, app_vars, cd_vars, ev_vars>>
    /\ FeAlive
    /\ fe_rt = "got" /\ fe_msg.kind = "resp"
    /\ fe_cs = None
    /\ IF "cs" \in fe_poisoned
       THEN /\ fe_rt' = "panic"
            /\ UNCHANGED fe_cs
       ELSE /\ fe_cs' = Some(Rt)
            /\ fe_rt' = "locked"
    /\ UNCHANGED <<fe_app, fe_state, fe_poisoned, fe_focused, fe_pending, fe_next,
                   fe_owed, fe_chan, fe_ui, fe_cmd, fe_msg>>

\* rpc.rs:73-78: pending.remove(&id); with no entry the branch ends and the
\* guard is dropped, with one the completion is called under the guard
FeRespRemove ==
    /\ UNCHANGED <<lc_vars, rpc_vars, app_vars, cd_vars, ev_vars>>
    /\ FeAlive
    /\ fe_rt = "locked"
    /\ IF fe_msg.id \in fe_pending
       THEN /\ fe_pending' = fe_pending \ {fe_msg.id}
            /\ fe_rt' = "callback"
            /\ UNCHANGED <<fe_cs, fe_msg>>
       ELSE /\ fe_cs' = None
            /\ fe_rt' = "recv"
            /\ fe_msg' = FeNoMsg
            /\ UNCHANGED fe_pending
    /\ UNCHANGED <<fe_app, fe_state, fe_poisoned, fe_focused, fe_next, fe_owed, fe_chan,
                   fe_ui, fe_cmd>>

\* main.rs:156-171: the completion of new_view locks App.state and sets
\* focused; on return the guard of Core.state is dropped (rpc.rs:78)
FeCompletion ==
    /\ UNCHANGED <<lc_vars, rpc_vars, app_vars, cd_vars, ev_vars>>
    /\ FeAlive
    /\ fe_rt = "callback"
    /\ fe_state = None
    /\ fe_cs' = None
    /\ IF "state" \in fe_poisoned
       THEN /\ fe_rt' = "panic"
            /\ fe_poisoned' = fe_poisoned \cup {"cs"}
            /\ UNCHANGED <<fe_focused, fe_msg>>
       ELSE /\ fe_focused' = TRUE
            /\ fe_rt' = "recv"
            /\ fe_msg' = FeNoMsg
            /\ UNCHANGED fe_poisoned
    /\ UNCHANGED <<fe_app, fe_state, fe_pending, fe_next, fe_owed, fe_chan, fe_ui, fe_cmd>>

\* main.rs:371-383
FeInit0 ==
    /\ fe_app = None
    /\ fe_state = None
    /\ fe_cs = None
    /\ fe_poisoned = {}
    /\ fe_focused = FALSE
    /\ fe_pending = {}
    /\ fe_next = 0
    /\ fe_owed = {}
    /\ fe_chan = <<>>
    /\ fe_ui = "new"
    /\ fe_cmd = "none"
    /\ fe_rt = "recv"
    /\ fe_msg = FeNoMsg

MenuCommands == {"open", "save"}

FeNext ==
    \/ FeStart
    \/ \E cmd \in MenuCommands : UiCommand(cmd)
    \/ UiCancel
    \/ UiSaveCheck
    \/ UiLockState
    \/ UiLockCore
    \/ UiSend
    \/ \E i \in 0..(MaxViews - 1) : FeCoreRespond(i)
    \/ FeCoreUpdate
    \/ FeRecv
    \/ FeHandlerLock
    \/ FeViewCmd
    \/ FeRespLock
    \/ FeRespRemove
    \/ FeCompletion

----------------------------------------------------------------------------
(* EditView of src/edit_view.rs: the queue of edit commands that wait for  *)
(* the core handle and the view id.  A method is a number: 0 is the        *)
(* "scroll" of update_viewport, 1, 2, ... are the user's commands in the   *)
(* order issued.                                                           *)

Scroll == 0

\* edit_view.rs:317-333: the state [pending, out] after
\* send_edit_cmd(method) with the given core handle and view id
send_edit_cmd(core, view_id, st, method) ==
    IF core /\ IsSome(view_id)
    THEN [pending |-> st.pending,
          out |-> Append(st.out, [method |-> method, view_id |-> Unwrap(view_id)])]
    ELSE [pending |-> Append(st.pending, method), out |-> st.out]

\* edit_view.rs:176-179: the loop over the queue taken by mem::take
RECURSIVE FirePending(_, _, _, _)
FirePending(core, view_id, st, taken) ==
    IF taken = <<>> THEN st
    ELSE FirePending(core, view_id, send_edit_cmd(core, view_id, st, Head(taken)), Tail(taken))

EvState == [pending |-> ev_pending, out |-> ev_out]

\* a key or a menu action: send_action / send_edit_cmd (edit_view.rs:192-226,
\* 312, 336-338)
EvCommand ==
    /\ UNCHANGED <<lc_vars, rpc_vars, app_vars, cd_vars, fe_vars>>
    /\ ev_n < MaxCmds
    /\ ev_n' = ev_n + 1
    /\ LET st == send_edit_cmd(ev_core, ev_view_id, EvState, ev_n + 1)
       IN  ev_pending' = st.pending /\ ev_out' = st.out
    /\ UNCHANGED <<ev_view_id, ev_core, ev_pokes>>

\* edit_view.rs:189-191: poke(Core) stores the handle
PokeCore ==
    /\ UNCHANGED <<lc_vars, rpc_vars, app_vars, cd_vars, fe_vars>>
    /\ ~ev_core
    /\ ev_core' = TRUE
    /\ UNCHANGED <<ev_view_id, ev_pending, ev_out, ev_n, ev_pokes>>

\* edit_view.rs:169-180: poke(ViewId) sets the view id, zorches the viewport
\* (update_viewport, lines 534-542, then sends "scroll": the new viewport
\* has at least one line), takes the queue and sends each queued command
PokeViewId(v) ==
    /\ UNCHANGED <<lc_vars, rpc_vars, app_vars, cd_vars, fe_vars>>
    /\ ev_pokes < MaxViews
    /\ ev_view_id # Some(v)
    /\ ev_pokes' = ev_pokes + 1
    /\ ev_view_id' = Some(v)
    /\ LET scrolled == send_edit_cmd(ev_core, Some(v), EvState, Scroll)
           st == FirePending(ev_core, Some(v), [pending |-> <<>>, out |-> scrolled.out],
                             scrolled.pending)
       IN  ev_pending' = st.pending /\ ev_out' = st.out
    /\ UNCHANGED <<ev_core, ev_n>>

\* edit_view.rs:244-256: EditView::new
EvInit0 ==
    /\ ev_view_id = None
    /\ ev_core = FALSE
    /\ ev_pending = <<>>
    /\ ev_out = <<>>
    /\ ev_n = 0
    /\ ev_pokes = 0

EvNext ==
    \/ EvCommand
    \/ PokeCore
    \/ \E v \in ViewIds : PokeViewId(v)

----------------------------------------------------------------------------
(* The offset codec: count_utf16 over a prefix (src/linecache.rs) and      *)
(* conv_utf16_to_utf8_offset (src/textline.rs)                             *)

\* code points of 1, 2, 3 and 4 UTF-8 bytes: a, e-acute, the euro sign
\* and U+1F600
CodePoints == {<<97>>, <<195, 169>>, <<226, 130, 172>>, <<240, 159, 152, 128>>}

\* the strs of exactly n, and of up to MaxChars, of these code points
RECURSIVE TextsOf(_)
TextsOf(n) ==
    IF n = 0 THEN {<<>>}
    ELSE {c \o t : c \in CodePoints, t \in TextsOf(n - 1)}
Texts == UNION {TextsOf(n) : n \in 0..MaxChars}

\* textline.rs:88-98: the loop over the bytes from index i on, with
\* utf16_count as it is before byte i
RECURSIVE ConvScan(_, _, _, _)
ConvScan(s, i, utf16_count, utf16_offset) ==
    IF i >= Len(s) THEN Len(s)
    ELSE LET b == s[i + 1]
             c == utf16_count + (IF NotCont(b) THEN 1 ELSE 0) + (IF b >= 240 THEN 1 ELSE 0)
         IN  IF c > utf16_offset THEN i
             ELSE ConvScan(s, i + 1, c, utf16_offset)

conv_utf16_to_utf8_offset_Same(s, utf16_offset) == Min(utf16_offset, Len(s))
\* textline.rs:86-100
conv_utf16_to_utf8_offset(s, utf16_offset) == ConvScan(s, 0, 0, utf16_offset)

\* linecache.rs:29-32: a caret at byte offset b of the text, as
\* Line::from_json converts it
NativeToWire(b) ==
    /\ UNCHANGED <<lc_vars, rpc_vars, app_vars, fe_vars, ev_vars>>
    /\ cd_pc = "start"
    /\ b <= Len(cd_text)
    /\ cd_b' = Some(b)
    /\ LET r == from_json([text |-> Some(cd_text), cursor |-> Some(<<Some(b)>>),
                           styles |-> None])
       IN  IF r.ok
           THEN /\ cd_w' = Some(r.line.cursor[1])
                /\ cd_pc' = "wire"
           ELSE /\ cd_w' = None
                /\ cd_pc' = "panic"
    /\ UNCHANGED <<cd_text, cd_back, cd_arr, cd_styles>>

\* the caret of the line is mapped back to a byte offset
WireToNative ==
    /\ UNCHANGED <<lc_vars, rpc_vars, app_vars, fe_vars, ev_vars>>
    /\ cd_pc = "wire"
    /\ cd_back' = Some(conv_utf16_to_utf8_offset(cd_text, Unwrap(cd_w)))
    /\ cd_pc' = "back"
    /\ UNCHANGED <<cd_text, cd_b, cd_w, cd_arr, cd_styles>>

\* textline.rs:76-79: hit_test gets a utf-16 position w from the layout
\* and converts it
hit_test(w) ==
    /\ UNCHANGED <<lc_vars, rpc_vars, app_vars, fe_vars, ev_vars>>
    /\ cd_pc = "start"
    /\ w <= count_utf16(cd_text) + 1
    /\ cd_w' = Some(w)
    /\ cd_back' = Some(conv_utf16_to_utf8_offset(cd_text, w))
    /\ cd_pc' = "hit_back"
    /\ UNCHANGED <<cd_text, cd_b, cd_arr, cd_styles>>

CdIdle ==
    /\ cd_b = None
    /\ cd_w = None
    /\ cd_back = None
    /\ cd_pc = "start"
    /\ cd_arr = <<>>
    /\ cd_styles = None

CdInit0 == cd_text = <<>> /\ CdIdle

\* the byte and utf-16 offsets tried: up to the end of the longest text,
\* and one utf-16 unit past it
ByteOffsets == 0..(4 * MaxChars)
WireOffsets == 0..(2 * MaxChars + 1)

CdNext ==
    \/ \E b \in ByteOffsets : NativeToWire(b)
    \/ WireToNative
    \/ \E w \in WireOffsets : hit_test(w)

\* linecache.rs:35-51: the flat `styles` array of a line, as Line::from_json
\* decodes it over the text
DecodeStyles(arr) ==
    /\ cd_arr' = arr
    /\ LET r == from_json([text |-> Some(cd_text), cursor |-> None, styles |-> Some(arr)])
       IN  IF r.ok
           THEN /\ cd_styles' = Some(r.line.styles)
                /\ cd_pc' = "styled"
           ELSE /\ cd_styles' = None
                /\ cd_pc' = "panic"

\* the triples tried: a start_delta that steps back, stays or skips a byte,
\* a length of one to four bytes (every code point length), two style ids
StartDeltas == {-1, 0, 1}
Lengths == {1, 2, 3, 4}
StyleIds == {0, 7}
Triples == {<<Some(d), Some(l), Some(s)>> : d \in StartDeltas, l \in Lengths, s \in StyleIds}

\* the arrays of exactly n, and of up to MaxSpans, triples
RECURSIVE ArraysOf(_)
ArraysOf(n) ==
    IF n = 0 THEN {<<>>}
    ELSE {t \o a : t \in Triples, a \in ArraysOf(n - 1)}
StyleArrays == UNION {ArraysOf(n) : n \in 0..MaxSpans}

\* the texts styled: up to MaxSpans code points
StyleTexts == UNION {TextsOf(n) : n \in 0..MaxSpans}

\* Line::from_json is called once, on any of the arrays
FromJsonStyles ==
    /\ UNCHANGED <<lc_vars, rpc_vars, app_vars, fe_vars, ev_vars>>
    /\ cd_pc = "start"
    /\ \E arr \in StyleArrays : DecodeStyles(arr)
    /\ UNCHANGED <<cd_text, cd_b, cd_w, cd_back>>

StylesNext == FromJsonStyles

----------------------------------------------------------------------------
(* Specifications *)

Init == LcInit0 /\ RpcInit0 /\ AppInit0 /\ EvInit0 /\ CdInit0 /\ FeInit0

\* the codec is given any text of up to MaxChars code points
CodecInit == LcInit0 /\ RpcInit0 /\ AppInit0 /\ EvInit0 /\ FeInit0 /\ cd_text \in Texts /\ CdIdle

\* the line cache alone
SpecLC == Init /\ [][LcNext]_vars

\* the line cache with the origin of its rows recorded
SelInit == LcIdle /\ lc_hist = TRUE /\ RpcInit0 /\ AppInit0 /\ EvInit0 /\ FeInit0 /\ CdInit0
SpecSel == SelInit /\ [][SelNext]_vars

\* the Core alone
SpecRpc == Init /\ [][RpcNext]_vars

\* the Core with every thread scheduled fairly: the receive thread takes
\* each step it can take and gets the mutex when it is free again and
\* again; a caller inside send_request or send_notification goes on to the
\* end; the peer reads what is written to it
RpcFairness ==
    /\ WF_vars(RxRecv) /\ WF_vars(RxNotify) /\ SF_vars(RxLock)
    /\ WF_vars(RxRemove) /\ WF_vars(RxCall) /\ WF_vars(RxUnlock) /\ WF_vars(RxLog)
    /\ \A c \in Callers :
          WF_vars(ReqWrite(c)) /\ WF_vars(ReqInsert(c)) /\ WF_vars(NoteWrite(c))
    /\ WF_vars(PeerRead)

SpecRpcFair == Init /\ [][RpcNext]_vars /\ RpcFairness

\* the Core with one thread sending requests and a longer inbound channel
SpecOrder == Init /\ [][OrderNext]_vars

\* the application on top of the receive thread
SpecApp == Init /\ [][AppNext]_vars

\* the offset codec
SpecCodec == CodecInit /\ [][CdNext]_vars

\* the two threads of the front end and their three mutexes
SpecFront == Init /\ [][FeNext]_vars

\* one EditView, its commands and the two pokes that complete it
SpecEdit == Init /\ [][EvNext]_vars

\* the style decoder is given any text of up to MaxSpans code points
StylesInit == LcInit0 /\ RpcInit0 /\ AppInit0 /\ EvInit0 /\ FeInit0 /\ cd_text \in StyleTexts /\ CdIdle
SpecStyles == StylesInit /\ [][StylesNext]_vars

----------------------------------------------------------------------------
(* Properties of the line cache, checked under SpecLC *)

\* the step taken is one iteration of the loop of apply_update
IsOpStep == lc_pc = "loop" /\ lc_pc' # "idle" /\ cur_op' # NoOp
\* ... that processed a well-formed op of the given kind
IsStepOf(kind) == IsOpStep /\ cur_op'.op = kind /\ IsSome(cur_op'.n)
StepN == Unwrap(cur_op'.n)

\* C1: a Skip(n) op advances the read cursor into the old snapshot by
\* exactly n rows and emits nothing, so that a following Copy(m) yields the
\* m old rows right after the skipped ones.
C1_SkipAdvancesByN ==
    [][IsStepOf("skip") => /\ lines' = lines
                           /\ old_iter' = Drop(old_iter, StepN)
                           /\ lc_pc' = "loop"]_vars

\* C5: when the copy and skip counts of the ops processed do not exceed the
\* length of the old cache, height() equals the number of inserted lines
\* plus the copy counts plus the invalidate counts.
C5_HeightIsSum ==
    (lc_pc = "loop" /\ room >= 0) => height = sum_emit

C5_Witness ==
    /\ lc_pc = "loop" /\ room = 0 /\ height = MaxHeight
    /\ cur_op = OpMsg("copy", Some(2), None)
    /\ IsSome(lines[1]) /\ IsSome(lines[MaxHeight])

\* C6: Copy(n) moves the next n rows at the read cursor into the new
\* sequence unchanged (Some(Line) with the same text, carets and styles, or
\* None) and advances the cursor by n.
C6_CopyMovesRows ==
    [][(IsStepOf("copy") /\ StepN <= Len(old_iter)) =>
           /\ lines' = lines \o SubSeq(old_iter, 1, StepN)
           /\ old_iter' = SubSeq(old_iter, StepN + 1, Len(old_iter))
           /\ lc_pc' = "loop"]_vars

C6_Witness ==
    /\ lc_pc = "loop"
    /\ cur_op = OpMsg("copy", Some(2), None)
    /\ room = 1 /\ Len(old_iter) = 1
    /\ Len(lines) = 2 /\ lines[1] = None
    /\ IsSome(lines[2]) /\ Unwrap(lines[2]).cursor # <<>> /\ Unwrap(lines[2]).styles # <<>>

\* C7: Invalidate(n) appends exactly n None rows and leaves the read cursor
\* where it was, whatever the old cache holds there.
C7_InvalidateAppendsNone ==
    [][IsStepOf("invalidate") =>
           /\ lines' = lines \o [k \in 1..StepN |-> None]
           /\ old_iter' = old_iter
           /\ lc_pc' = "loop"]_vars

C7_Witness ==
    /\ lc_pc = "loop"
    /\ cur_op = OpMsg("invalidate", Some(3), None)
    /\ old_iter # <<>> /\ IsSome(old_iter[1])
    /\ height = 3
    /\ get_line(0) = None /\ get_line(1) = None /\ get_line(2) = None

\* C8: apply_update replaces the cache atomically: until apply_update
\* returns, also when it stops on a bad op, height() and get_line() show
\* the old snapshot.
C8_AtomicReplace ==
    [][lc_pc' # "idle" => lines' = lines]_vars

\* C9: a malformed update payload comes back to the caller as a failure;
\* it never aborts the calling thread.
C9_NoAbort == lc_pc # "panic"

\* C10: a Copy(n) or Skip(n) that asks for more rows than the old snapshot
\* has left does not fail; the copy emits the rows left and then None rows,
\* n in all.
C10_TotalOverCounts ==
    [][((IsStepOf("copy") \/ IsStepOf("skip")) /\ StepN > Len(old_iter)) =>
           /\ lc_pc' = "loop"
           /\ old_iter' = <<>>
           /\ IsStepOf("copy") =>
                 /\ Len(lines') = Len(lines) + StepN
                 /\ SubSeq(lines', 1, Len(lines) + Len(old_iter)) = lines \o old_iter
                 /\ \A k \in (Len(lines) + Len(old_iter) + 1)..Len(lines') : lines'[k] = None]_vars

C10_Witness ==
    /\ lc_pc = "loop"
    /\ cur_op = OpMsg("copy", Some(2), None)
    /\ room = 0 - 1
    /\ old_iter = <<>>
    /\ Len(lines) = 2 /\ IsSome(lines[1]) /\ lines[2] = None

----------------------------------------------------------------------------
(* Properties of the Core, checked under SpecRpc *)

\* C2: the completion callback is invoked only after the pending entry has
\* been removed and the mutex released, so that a callback that calls back
\* into the same Core never gets stuck.
C2_CallbackOutsideLock ==
    /\ rx_pc = "callback" => (lock # Some(RxThread) /\ Unwrap(rx_msg.id) \notin DOMAIN pending)
    /\ rx_pc # "stuck"

\* C3: the ids send_request allocates are 0, 1, 2, ... in the order of
\* allocation: distinct, increasing, without gaps.
C3_IdsDistinctGapFree ==
    \A k \in 1..Len(alloc) : alloc[k] = k - 1

C3_Witness ==
    /\ Len(alloc) = 2
    /\ 0 \in DOMAIN pending /\ pending[0] = CallbackOf(1)
    /\ c_pc[2] = "req_write" /\ c_id[2] = 1

\* C4: the receive loop never looks up the pending map for id i while a
\* send_request has written the request with id i and not yet inserted its
\* entry.
C4_NoLookupBeforeInsert ==
    \A c \in Callers :
        c_pc[c] = "req_insert" =>
            ~(rx_pc \in {"locked", "unexpected"} /\ rx_msg.id = Some(c_id[c]))

C4_Witness ==
    /\ rx_pc = "got" /\ rx_msg.genuine
    /\ \E c \in Callers : c_pc[c] = "req_insert" /\ rx_msg.id = Some(c_id[c])

\* a step of the receive thread
IsRxStep == rx_pc' # rx_pc
\* what a step that is no invocation leaves alone
NothingInvoked == fired' = fired /\ rx_cb' = None

\* C11: a response whose id is no key of the pending map raises no error
\* and invokes no completion; the pending map and the id counter stay as
\* they are and the receive loop goes back to receiving.
C11_UnmatchedResponseIgnored ==
    [][/\ (rx_pc = "locked" /\ Unwrap(rx_msg.id) \notin DOMAIN pending /\ IsRxStep) =>
            /\ rx_pc' = "unexpected"
            /\ pending' = pending /\ cs_id' = cs_id /\ NothingInvoked
       /\ rx_pc = "unexpected" =>
            /\ pending' = pending /\ cs_id' = cs_id /\ NothingInvoked
            /\ IsRxStep => (rx_pc' = "recv" /\ lock' = None /\ poisoned' = poisoned)]_vars

C11_Witness ==
    /\ rx_pc = "unexpected"
    /\ rx_msg = InMsg(None, Some(MaxRequests), FALSE)
    /\ pending # <<>>

\* C12: a message with neither a string method nor a numeric id is printed
\* and dropped: nothing is invoked, the pending map, the id counter and the
\* mutex stay as they are, and the receive loop goes back to receiving.
C12_MalformedDiscarded ==
    [][/\ (rx_pc = "got" /\ ~IsSome(rx_msg.method) /\ ~IsSome(rx_msg.id) /\ IsRxStep) =>
            /\ rx_pc' = "logged"
            /\ pending' = pending /\ cs_id' = cs_id /\ NothingInvoked
            /\ lock' = lock /\ poisoned' = poisoned
       /\ (rx_pc = "logged" /\ IsRxStep) =>
            /\ rx_pc' = "recv"
            /\ pending' = pending /\ cs_id' = cs_id /\ NothingInvoked
            /\ lock' = lock /\ poisoned' = poisoned]_vars

C12_Witness ==
    /\ rx_pc = "logged"
    /\ rx_msg = InMsg(None, None, FALSE)
    /\ pending # <<>> /\ rx_chan # <<>>

\* C14: a completion is invoked at most once: the response that arrives
\* first with its id takes the entry out of the pending map, and a later
\* response with that id finds no entry and invokes nothing.
C14_AtMostOnce ==
    [][/\ (rx_pc = "callback" /\ IsRxStep) =>
            /\ Unwrap(rx_msg.id) \notin fired
            /\ Unwrap(rx_msg.id) \notin DOMAIN pending
       /\ (rx_pc = "locked" /\ Unwrap(rx_msg.id) \in fired /\ IsRxStep) =>
            (rx_pc' = "unexpected" /\ NothingInvoked)]_vars

C14_Witness ==
    /\ rx_pc = "unexpected"
    /\ IsSome(rx_msg.id) /\ Unwrap(rx_msg.id) \in fired

\* C22: the receive loop ends only on a closed and empty channel, and ends
\* cleanly: it holds no lock and leaves the mutex unpoisoned, no caller of
\* send_request or send_notification fails for it, nothing is invoked any
\* more, and the entries still pending stay in the map.
C22_CleanExit ==
    [][/\ (rx_pc = "recv" /\ rx_chan = <<>> /\ IsRxStep) =>
            /\ ~rx_open /\ rx_pc' = "exit"
            /\ pending' = pending /\ NothingInvoked
            /\ lock' = lock /\ poisoned' = poisoned
       /\ rx_pc' = "exit" =>
            /\ ~rx_open' /\ rx_chan' = <<>>
            /\ lock' # Some(RxThread) /\ ~poisoned'
            /\ \A c \in Callers : c_pc'[c] # "panic"
       /\ rx_pc = "exit" =>
            /\ rx_pc' = "exit" /\ NothingInvoked
            /\ \A i \in DOMAIN pending : i \in DOMAIN pending' /\ pending'[i] = pending[i]]_vars

C22_Witness ==
    /\ rx_pc = "exit"
    /\ 0 \in fired /\ 1 \in DOMAIN pending
    /\ c_pc[1] = "note_write"

\* C23: send_notification writes one frame without an id and leaves the id
\* counter and the pending map as they are, also between the send_request
\* calls of other threads.
C23_NotificationFrame ==
    [][\A c \in Callers :
          /\ (c_pc[c] = "idle" /\ c_pc'[c] = "note_write") =>
                (sent' = sent /\ cs_id' = cs_id /\ pending' = pending)
          /\ c_pc[c] = "note_write" =>
                (cs_id' = cs_id /\ pending' = pending /\ alloc' = alloc)
          /\ (c_pc[c] = "note_write" /\ c_pc'[c] # "note_write") =>
                (sent' = Append(sent, Frame(None)) /\ c_pc'[c] = "idle" /\ lock' = None)]_vars

C23_Witness ==
    /\ sent = <<Frame(None)>>
    /\ cs_id = 1 /\ 0 \in DOMAIN pending
    /\ c_pc[1] = "req_write" /\ c_pc[2] = "idle"

\* C26: a message with a string method goes to the handler even when it
\* has a numeric id as well, and then the pending map is neither locked nor
\* looked up nor changed; the response branch is entered only without a
\* string method.
C26_MethodFirst ==
    [][/\ (rx_pc = "got" /\ IsSome(rx_msg.method) /\ IsRxStep) =>
            /\ rx_pc' = "notified"
            /\ pending' = pending /\ lock' = lock /\ NothingInvoked
       /\ (rx_pc = "notified" /\ IsRxStep) =>
            /\ rx_pc' = "recv"
            /\ pending' = pending /\ lock' = lock /\ NothingInvoked
       /\ (rx_pc = "got" /\ rx_pc' = "locked") => ~IsSome(rx_msg.method)]_vars

C26_Witness ==
    /\ rx_pc = "notified"
    /\ rx_msg = InMsg(Some("update"), Some(0), FALSE)
    /\ 0 \in DOMAIN pending

\* C29: the request frames are written in the order of their ids, each
\* allocated id once: the k-th request frame written has id k - 1, and an
\* allocated id not yet written is that of the one caller about to write.
C29_FramesInIdOrder ==
    /\ \A k \in 1..Len(written) : written[k] = k - 1
    /\ Len(written) <= Len(alloc)
    /\ Len(alloc) - Len(written) = Cardinality({c \in Callers : c_pc[c] = "req_write"})
    /\ Len(alloc) - Len(written) <= 1

C29_Witness ==
    /\ written = <<0, 1>>
    /\ sent = <<Frame(Some(1))>>
    /\ c_pc[1] = "note_write"

\* C30: every key of the pending map is below the id counter, the counter
\* never goes down, and an id that was allocated is not allocated again,
\* also after its entry has been removed.
C30_KeysBelowCounter ==
    [][/\ \A i \in DOMAIN pending' : i < cs_id'
       /\ cs_id' >= cs_id
       /\ alloc' # alloc =>
            /\ alloc' = Append(alloc, cs_id)
            /\ \A k \in 1..Len(alloc) : alloc[k] < cs_id
            /\ cs_id \notin fired /\ cs_id \notin DOMAIN pending]_vars

C30_Witness ==
    /\ cs_id = 2 /\ DOMAIN pending = {1} /\ 0 \in fired
    /\ lock = None /\ rx_pc = "recv"

\* a response with id i waits in the inbound channel
ResponseQueued(i) ==
    \E k \in 1..Len(rx_chan) : ~IsSome(rx_chan[k].method) /\ rx_chan[k].id = Some(i)

\* C24: with the receive thread scheduled fairly, once the completion of
\* request i is registered and a response with id i is in the inbound
\* channel, that completion is invoked at some later time.
C24_ResponseCompletes ==
    \A i \in 0..(MaxRequests - 1) :
        (i \in DOMAIN pending /\ ResponseQueued(i)) ~> (i \in fired)

----------------------------------------------------------------------------
(* The order of the invocations, checked under SpecOrder *)

\* C15: the receive thread takes the messages in the order of the channel
\* and one at a time: the handler or completion it invokes is the one of
\* the message it has just taken, and that invocation is over before the
\* next message is taken.
C15_InvokedInArrivalOrder ==
    [][/\ (rx_chan' # rx_chan /\ Len(rx_chan') <= Len(rx_chan)) =>
            /\ rx_pc = "recv" /\ rx_cb = None
            /\ rx_msg' = Head(rx_chan) /\ rx_chan' = Tail(rx_chan)
            /\ rx_pc' = "got"
       /\ (rx_pc = "got" /\ IsSome(rx_msg.method) /\ IsRxStep) =>
            (rx_pc' = "notified" /\ rx_chan' = rx_chan /\ fired' = fired)
       /\ fired' # fired =>
            /\ rx_pc = "callback" /\ rx_pc' = "called"
            /\ fired' = fired \cup {Unwrap(rx_msg.id)}
            /\ rx_chan' = rx_chan]_vars

C15_Witness ==
    /\ rx_pc = "called" /\ rx_msg = InMsg(None, Some(0), TRUE)
    /\ rx_chan = <<InMsg(Some("update"), None, FALSE), InMsg(None, Some(1), TRUE)>>

----------------------------------------------------------------------------
(* Properties of the application, checked under SpecApp *)

\* C13: no notification given to the AppDispatcher handler ends the
\* receive thread, an update or scroll_to that comes before a view is
\* focused and a scroll_to without a numeric line included; the thread
\* stops only when the inbound channel is closed.
C13_NotificationsNeverEndSession ==
    /\ ~(rt_pc = "panic" /\ IsSome(rt_msg.method))
    /\ rt_pc = "exit" => (~in_open /\ in_chan = <<>>)

----------------------------------------------------------------------------
(* Properties of the offset codec, checked under SpecCodec *)

\* the byte length of the code point whose first byte is b
CharLen(b) == IF b < 128 THEN 1 ELSE IF b < 224 THEN 2 ELSE IF b < 240 THEN 3 ELSE 4

\* the byte offsets of cd_text that are code point boundaries
Boundaries == {i \in 0..Len(cd_text) : is_char_boundary(cd_text, i)}

\* the utf-16 offset of a boundary, by counting code points: one unit for
\* each, two for those of 4 bytes
WireOf(i) ==
    Cardinality({j \in Boundaries : j < i})
    + Cardinality({j \in Boundaries : j < i /\ cd_text[j + 1] >= 240})

\* C16: a byte offset on a code point boundary, turned into a utf-16
\* offset by count_utf16 over the prefix and back by
\* conv_utf16_to_utf8_offset, comes back unchanged.
C16_RoundTrip ==
    cd_pc = "back" => (Unwrap(cd_b) \in Boundaries /\ cd_back = cd_b)

C16_Witness ==
    /\ cd_pc = "back"
    /\ cd_text = <<240, 159, 152, 128, 195, 169, 97>>
    /\ cd_b = Some(6) /\ cd_w = Some(3) /\ cd_back = Some(6)

\* the mutex the main thread is about to lock, and the one the receive
\* thread is about to lock (None when the thread is not before a lock)
UiWants ==
    IF fe_ui = "idle" THEN None
    ELSE IF fe_ui = "has_app" \/ fe_ui = "save_named" THEN Some("state")
    ELSE IF fe_ui = "req" \/ fe_ui = "has_state" THEN Some("cs")
    ELSE None
RtWants ==
    IF fe_rt = "got" /\ fe_msg.kind = "note" THEN Some("app")
    ELSE IF fe_rt = "got" /\ fe_msg.kind = "resp" THEN Some("cs")
    ELSE IF fe_rt = "handler" \/ fe_rt = "callback" THEN Some("state")
    ELSE None
HolderOf(m) == IF m = "app" THEN fe_app ELSE IF m = "state" THEN fe_state ELSE fe_cs

\* C28: in no reachable state of the front end are the main thread and the
\* receive thread blocked on each other's locks: the main thread waiting
\* for a mutex the receive thread holds while the receive thread waits for
\* one the main thread holds.
C28_NoLockCycle ==
    ~ /\ FeAlive
      /\ IsSome(UiWants) /\ HolderOf(Unwrap(UiWants)) = Some(Rt)
      /\ IsSome(RtWants) /\ HolderOf(Unwrap(RtWants)) = Some(Ui)

\* the user's commands among the notifications sent, in the order sent
RECURSIVE UserSent(_)
UserSent(out) ==
    IF out = <<>> THEN <<>>
    ELSE (IF Head(out).method = Scroll THEN <<>> ELSE <<Head(out).method>>) \o UserSent(Tail(out))

IsSuffix(s, t) == Len(s) <= Len(t) /\ s = SubSeq(t, Len(t) - Len(s) + 1, Len(t))

\* the rows of lines that came from the old snapshot are rows of it, taken
\* from before the read cursor, each place once and in increasing order
SelectionOk ==
    /\ Len(origin) = Len(lines)
    /\ IsSuffix(old_iter, old_snap)
    /\ \A k \in 1..Len(origin) :
          origin[k] > 0 =>
              /\ origin[k] <= Len(old_snap) - Len(old_iter)
              /\ lines[k] = old_snap[origin[k]]
    /\ \A j, k \in 1..Len(origin) :
          (j < k /\ origin[j] > 0 /\ origin[k] > 0) => origin[j] < origin[k]

\* C32: the rows of the new cache that came from the old snapshot are an
\* order-preserving selection of it: each old row is moved at most once,
\* surviving rows keep their order, and the read cursor only moves forward.
C32_OrderPreservingSelection ==
    [][(lc_pc = "loop" /\ lc_pc' # "idle") =>
          (SelectionOk' /\ IsSuffix(old_iter', old_iter))]_vars

\* rows 1 and 3 of a snapshot of three survive, row 2 was skipped
C32_Witness ==
    /\ lc_pc = "loop"
    /\ Len(old_snap) = 3
    /\ origin = <<1, 3>>
    /\ lines = <<old_snap[1], old_snap[3]>>
    /\ old_iter = <<>>

\* C33: in every reachable AppState a focused view is a key of views, so
\* get_focused_viewstate finds it: send_view_cmd does not fail on its
\* expects once a view has been focused.  The completion of new_view sets
\* focused and inserts the view in the same step.
C33_FocusedInViews ==
    IsSome(focused) =>
        /\ Unwrap(focused) \in views
        /\ send_view_cmd # PanicBoth

\* the second new_view has completed: both views are there, the last one
\* is focused
C33_Witness ==
    /\ focused = Some("view-id-2")
    /\ views = ViewIds
    /\ nv_pending = {}
    /\ rt_pc = "recv"

\* the byte end of span k of cd_arr, adding up the triples: the end of span
\* k-1 (0 before the first), plus start_delta, plus length
RECURSIVE ByteEnd(_)
ByteEnd(k) ==
    IF k = 0 THEN 0
    ELSE ByteEnd(k - 1) + Unwrap(cd_arr[3 * k - 2]) + Unwrap(cd_arr[3 * k - 1])
ByteStart(k) == ByteEnd(k - 1) + Unwrap(cd_arr[3 * k - 2])

\* every span of cd_arr starts and ends on a code point boundary of cd_text,
\* and does not end before its start
SpansInText ==
    \A k \in 1..(Len(cd_arr) \div 3) :
        ByteStart(k) \in Boundaries /\ ByteEnd(k) \in Boundaries /\ ByteStart(k) <= ByteEnd(k)

\* C25: Line::from_json decodes the flat styles array as consecutive
\* triples (start_delta, length, style_id): span k starts at the byte end
\* of span k-1 (0 for the first) plus start_delta and ends at start +
\* length, the stored range is [wire(start), wire(end)) with the style_id
\* given, and the spans are kept in input order.  It returns a Line exactly
\* when every span lies on code point boundaries of the text.
C25_StyleTriples ==
    /\ cd_pc = "styled" =>
          /\ SpansInText
          /\ Len(Unwrap(cd_styles)) = Len(cd_arr) \div 3
          /\ \A k \in 1..(Len(cd_arr) \div 3) :
                /\ Unwrap(cd_styles)[k].style_id = Unwrap(cd_arr[3 * k])
                /\ Unwrap(cd_styles)[k].range = <<WireOf(ByteStart(k)), WireOf(ByteEnd(k))>>
    /\ (cd_pc = "panic" /\ cd_arr # <<>>) => ~SpansInText

\* U+1F600 and "a": a span over the four bytes of the first, then a span
\* over the "a" that starts where the first one ended
C25_Witness ==
    /\ cd_pc = "styled"
    /\ cd_text = <<240, 159, 152, 128, 97>>
    /\ cd_arr = <<Some(0), Some(4), Some(7), Some(0), Some(1), Some(0)>>
    /\ cd_styles = Some(<<[style_id |-> 7, range |-> <<0, 2>>],
                          [style_id |-> 0, range |-> <<2, 3>>]>>)

\* C17: an offset in the middle of a code point is rounded down to the
\* start of that code point by both conversions, and neither fails: a
\* byte offset inside a multi-byte sequence gives the utf-16 offset of the
\* start of the code point, a utf-16 offset between the two units of a
\* surrogate pair gives the byte offset of the start of the code point.
C17_MidOffsetRoundsDown ==
    /\ cd_pc # "panic"
    /\ cd_pc = "wire" =>
           \E i \in Boundaries :
               /\ i <= Unwrap(cd_b) /\ cd_w = Some(WireOf(i))
               /\ \A j \in Boundaries : j <= Unwrap(cd_b) => j <= i
    /\ cd_pc = "hit_back" =>
           \E i \in Boundaries :
               /\ cd_back = Some(i) /\ WireOf(i) <= Unwrap(cd_w)
               /\ \A j \in Boundaries : WireOf(j) <= Unwrap(cd_w) => j <= i

\* C18: in an ASCII text the utf-16 offset of every boundary is its byte
\* offset; over a code point of 4 bytes the utf-16 offset grows by 2 (the
\* byte offset by 4), over one of 2 or 3 bytes it grows by 1.
C18_WireOffsetGrowth ==
    cd_pc = "wire" =>
        LET b == Unwrap(cd_b)
        IN  /\ (\A k \in 1..Len(cd_text) : cd_text[k] < 128) => Unwrap(cd_w) = b
            /\ b < Len(cd_text) =>
                  LET n == CharLen(cd_text[b + 1])
                  IN  count_utf16(Slice(cd_text, 0, b + n)) =
                          Unwrap(cd_w) + (IF n = 4 THEN 2 ELSE 1)

C18_Witness ==
    /\ cd_pc = "wire"
    /\ cd_text = <<97, 240, 159, 152, 128, 226, 130, 172>>
    /\ cd_b = Some(1) /\ cd_w = Some(1)
    /\ count_utf16(Slice(cd_text, 0, 5)) = 3

----------------------------------------------------------------------------
(* More properties of the line cache, checked under SpecLC *)

\* the payloads of an ins op that Line::from_json gets through
WellFormed(op) ==
    /\ op.op = "ins" /\ IsSome(op.lines)
    /\ \A k \in 1..Len(Unwrap(op.lines)) : from_json(Unwrap(op.lines)[k]).ok

\* C19: ins appends one Some(Line) for each line payload, in the order of
\* the payloads, with the text as given; a payload without cursor and
\* without styles gives a Line with no carets and no style spans.
C19_InsAppendsLines ==
    [][(IsOpStep /\ WellFormed(cur_op')) =>
          LET msgs == Unwrap(cur_op'.lines)
          IN  /\ Len(lines') = Len(lines) + Len(msgs)
              /\ SubSeq(lines', 1, Len(lines)) = lines
              /\ \A k \in 1..Len(msgs) :
                    LET row == lines'[Len(lines) + k]
                    IN  /\ IsSome(row)
                        /\ Unwrap(row).text = Unwrap(msgs[k].text)
                        /\ ~IsSome(msgs[k].cursor) => Unwrap(row).cursor = <<>>
                        /\ ~IsSome(msgs[k].styles) => Unwrap(row).styles = <<>>
              /\ old_iter' = old_iter
              /\ lc_pc' = "loop"]_vars

C19_Witness ==
    /\ lc_pc = "loop"
    /\ cur_op = OpMsg("ins", None, Some(<<MsgA>>))
    /\ old_iter = <<>>
    /\ height = 1
    /\ get_line(0) = Some([text |-> <<104, 105, 10>>, cursor |-> <<>>, styles |-> <<>>])

\* C20: get_line(i) is None when i is at or past height() and when row i
\* is a None row; it is the stored Line when i is below height() and the
\* row is Some; it fails for no index.
C20_GetLineTotal ==
    \A i \in 0..(MaxHeight + 1) :
        /\ i >= height => get_line(i) = None
        /\ i < height => get_line(i) = lines[i + 1]
        /\ IsSome(get_line(i)) <=> (i < height /\ lines[i + 1] # None)

C20_Witness ==
    /\ lc_pc = "idle"
    /\ height = 2
    /\ IsSome(get_line(0)) /\ Unwrap(get_line(0)).text = <<104, 105, 10>>
    /\ get_line(1) = None /\ lines[2] = None
    /\ get_line(2) = None

\* C21: an op whose "op" is none of ins, copy, skip, invalidate is passed
\* over: it appends no row and leaves the read cursor where it was, and the
\* loop goes on with the next op.
C21_UnknownOpIgnored ==
    [][(IsOpStep /\ cur_op'.op \notin {"ins", "copy", "skip", "invalidate"}) =>
           /\ lines' = lines
           /\ old_iter' = old_iter
           /\ lc_pc' = "loop"]_vars

C21_Witness ==
    /\ lc_pc = "loop"
    /\ cur_op = OpMsg("noop", None, None)
    /\ Len(lines) = 1 /\ IsSome(lines[1])
    /\ Len(old_iter) = 1 /\ room = 1

\* C27: an ins op leaves the read cursor into the old snapshot where it
\* was, whether its payloads are well formed or not, so the rows later copy
\* ops take do not depend on the ins ops between them.
C27_InsKeepsCursor ==
    [][(IsOpStep /\ cur_op'.op = "ins") => old_iter' = old_iter]_vars

C27_Witness ==
    /\ lc_pc = "loop"
    /\ cur_op = OpMsg("ins", None, Some(<<MsgA, MsgB>>))
    /\ Len(lines) = 3 /\ lines[1] = None
    /\ Len(old_iter) = 1 /\ IsSome(old_iter[1]) /\ room = 1

====
